---- MODULE Spec2Model ----
(***************************************************************************)
(* FlexBI analytics backend (src/server.py): the chunk store               *)
(* (upload_file_chunk), the large-file pipeline                            *)
(* (LargeFileProcessor.process_large_file and its parsers), the status     *)
(* store (processing_status) with its cancel endpoint and its streaming    *)
(* reader (generate_updates).                                              *)
(*                                                                         *)
(* The handlers are coroutines on one asyncio event loop: a coroutine runs *)
(* without interruption from one suspension point (an await that really    *)
(* suspends, or a yield of the processing generator to its consumer) to    *)
(* the next.  Each action below is one such stretch of code.               *)
(***************************************************************************)
EXTENDS Integers, Sequences, FiniteSets, TLC

(***************************************************************************)
(* Bounds of the model.                                                    *)
(***************************************************************************)
MaxChunks == 3
MaxCalls == 4
MaxSlots == 2

(***************************************************************************)
(* Rationals: Python computes progress values with true division; the      *)
(* model keeps them exact as numerator/denominator pairs.                  *)
(***************************************************************************)
Rat(n, d) == [num |-> n, den |-> d]
RatInt(n) == Rat(n, 1)
RatEq(a, b) == a.num * b.den = b.num * a.den
RatLeq(a, b) == a.num * b.den <= b.num * a.den
RatLt(a, b) == a.num * b.den < b.num * a.den
RatMin(a, b) == IF RatLeq(a, b) THEN a ELSE b

(***************************************************************************)
(* Chunk store: POST /api/upload/chunk.                                    *)
(***************************************************************************)
FileIds == {"f1", "f2"}
FileNames == {"a.csv", "b.csv"}
Slots == 1..MaxSlots

VARIABLES
    staging,    \* TEMP_DIR/chunks/<file_id>: does it exist, and its files by name
    artifacts,  \* TEMP_DIR/<filename>: does it exist, and its bytes
    call,       \* the frames of the upload_file_chunk coroutines
    delivered   \* history of the requests per file_id: chunk indices in arrival order, totals declared

VARIABLES
    processing_status,  \* LargeFileProcessor.processing_status: processing_id -> record
    tempfiles,          \* the files TEMP_DIR/<processing_id>_<filename> that exist
    run,                \* the frames of the pipeline runs (_process_file_background)
    events,             \* per run, the events process_large_file has yielded
    cancels,            \* number of cancel requests made
    reader,             \* the frame of a streaming reader (generate_updates)
    now                 \* time.time(), in seconds

VARIABLES
    answer      \* per status-store endpoint, the HTTP answer to its latest request

VARIABLES
    active_connections,  \* ConnectionManager.active_connections, a list
    socket,              \* the websockets: their endpoint's position, and is the peer gone
    bcast                \* the frames of the ConnectionManager.broadcast coroutines

VARIABLES
    keyed,      \* history: per call site, a call of _generate_key and the key it returned
    guardian,   \* the frame of the _monitor_memory thread, and what its latest sample did
    validated,  \* the latest POST /api/upload/validate: the file and the HTTP answer
    lock,       \* AdvancedCache.lock: the thread that holds it, 0 when free
    thread,     \* the frames of the threads that call cache.get and cache.set
    analysed,   \* the latest frame given to _analyze_columns and _generate_insights, and their results
    hyper       \* _cache/_cache_timeout of the hyperlocal file, and the latest answer of get_hyperlocal_data_internal

VARIABLES
    cache,         \* AdvancedCache.cache: key -> (data, timestamp)
    access_times,  \* AdvancedCache.access_times, a deque of (key, time)
    last_set,      \* history: per key, the latest set and whether a cleanup removed it
    got,           \* the latest get: its key and what it returned; turn flips at each get
    ops            \* how many sets were made; is a set stuck in its cleanup

chunkVars == <<staging, artifacts, call, delivered>>
pipeVars == <<processing_status, tempfiles, run, events, cancels, reader, now>>
apiVars == <<answer>>
hubVars == <<active_connections, socket, bcast>>
cacheVars == <<cache, access_times, last_set, got, ops>>
svcVars == <<keyed, guardian, validated, lock, thread, analysed, hyper>>

\* What the chunk store leaves alone, what a pipeline run leaves alone, what
\* the status endpoints leave alone besides the pipeline's state, and what the
\* notification hub leaves alone.
notChunkVars == <<pipeVars, apiVars, hubVars, cacheVars, svcVars>>
notRunVars == <<chunkVars, apiVars, hubVars, cacheVars, svcVars>>
notApiVars == <<chunkVars, hubVars, cacheVars, svcVars>>
notHubVars == <<chunkVars, pipeVars, apiVars, cacheVars, svcVars>>
notSvcVars == <<chunkVars, pipeVars, apiVars, hubVars, cacheVars>>

vars == <<staging, artifacts, call, delivered,
          processing_status, tempfiles, run, events, cancels, reader, now,
          answer, active_connections, socket, bcast,
          cache, access_times, last_set, got, ops, keyed, guardian, validated,
          lock, thread, analysed, hyper>>

\* Decimal digits of a natural number, most significant first.
RECURSIVE Digits(_)
Digits(i) == IF i < 10 THEN <<i>> ELSE Digits(i \div 10) \o <<i % 10>>

\* Left padding with zeros to width 4, as the format spec 04d does.
RECURSIVE ZeroPad4(_)
ZeroPad4(s) == IF Len(s) < 4 THEN ZeroPad4(<<0>> \o s) ELSE s

\* f"chunk_{chunk_index:04d}": the file name of a chunk, as its digit string.
ChunkName(i) == ZeroPad4(Digits(i))

NoFiles == [n \in {} |-> <<>>]
NoDir == [exists |-> FALSE, files |-> NoFiles]
NoArtifact == [exists |-> FALSE, data |-> <<>>]

\* A positioned write of data at offset off into a file holding content
\* (bytes past the old end that are not written read as 0).
WriteAt(content, off, data) ==
    LET n == IF Len(content) > off + Len(data) THEN Len(content) ELSE off + Len(data)
    IN [k \in 1..n |->
          IF k > off /\ k <= off + Len(data) THEN data[k - off]
          ELSE IF k <= Len(content) THEN content[k] ELSE 0]

UploadedChunksByCalls(fid) == Len(delivered[fid].order)

\* len(list(chunk_dir.glob("chunk_*"))): a missing directory globs to nothing.
UploadedChunks(fid) ==
    IF staging[fid].exists THEN Cardinality(DOMAIN staging[fid].files) ELSE 0

NoResp == [status |-> "none", uploaded_chunks |-> 0, progress |-> RatInt(0)]
IdleCall ==
    [pc |-> "idle", file_id |-> "f1", chunk_index |-> 0, total_chunks |-> 1,
     filename |-> "a.csv", content |-> <<>>, detached |-> FALSE,
     i |-> 0, offset |-> 0, wrote_final |-> FALSE, removed |-> FALSE, resp |-> NoResp]

NoDelivery == [order |-> <<>>, totals |-> {}, names |-> {}]

InitChunk ==
    /\ staging = [f \in FileIds |-> NoDir]
    /\ artifacts = [n \in FileNames |-> NoArtifact]
    /\ call = [c \in Slots |-> IdleCall]
    /\ delivered = [f \in FileIds |-> NoDelivery]

\* How many times index idx was delivered for fid so far.
Attempts(fid, idx) ==
    Cardinality({k \in 1..Len(delivered[fid].order) : delivered[fid].order[k] = idx})

\* The bytes a client sends as chunk idx on its (a+1)-th delivery: they differ
\* by index and by delivery, and in length (longer, then shorter again).
Payload(idx, a) == IF a % 2 = 0 THEN <<10 * a + idx + 1>> ELSE <<idx + 1, 10 * a + idx>>

TotalCalls ==
    LET RECURSIVE Sum(_)
        Sum(S) == IF S = {} THEN 0
                  ELSE LET f == CHOOSE f \in S : TRUE
                       IN Len(delivered[f].order) + Sum(S \ {f})
    IN Sum(FileIds)

\* The request arrives: chunk_dir.mkdir(parents=True, exist_ok=True), then the
\* coroutine suspends in aiofiles.open(chunk_path, 'wb').
PutChunk(c, fid, idx, total, fname, bytes) ==
    /\ call[c].pc \in {"idle", "done"}
    /\ TotalCalls < MaxCalls
    /\ staging' = [staging EXCEPT ![fid].exists = TRUE]
    /\ call' = [call EXCEPT ![c] =
                  [IdleCall EXCEPT !.pc = "open", !.file_id = fid, !.chunk_index = idx,
                                   !.total_chunks = total, !.filename = fname,
                                   !.content = bytes]]
    /\ delivered' = [delivered EXCEPT ![fid] =
                        [order |-> Append(@.order, idx),
                         totals |-> @.totals \cup {total},
                         names |-> @.names \cup {fname}]]
    /\ UNCHANGED artifacts
    /\ UNCHANGED notChunkVars

\* A putChunk call that starts only when no other call is in flight.
PutChunkSeq(c, fid, idx, total, fname, bytes) ==
    /\ \A d \in Slots : call[d].pc \in {"idle", "done"}
    /\ PutChunk(c, fid, idx, total, fname, bytes)

ErrorResp == [NoResp EXCEPT !.status = "error"]

\* The answer after reassembly (with the count the call had found).
CompleteResp(n) ==
    [status |-> "complete", uploaded_chunks |-> n, progress |-> RatInt(0),
     ready_for_processing |-> TRUE]

\* aiofiles.open(chunk_path, 'wb') runs: the chunk file is created or truncated;
\* it fails when the directory is gone (HTTP 500).
ChunkOpen(c) ==
    LET f == call[c].file_id
        name == ChunkName(call[c].chunk_index)
    IN
    /\ call[c].pc = "open"
    /\ IF staging[f].exists
       THEN /\ staging' = [staging EXCEPT ![f].files =
                             [n \in DOMAIN @ \cup {name} |-> IF n = name THEN <<>> ELSE @[n]]]
            /\ call' = [call EXCEPT ![c].pc = "write"]
       ELSE /\ call' = [call EXCEPT ![c].pc = "done", ![c].resp = ErrorResp]
            /\ UNCHANGED staging
    /\ UNCHANGED <<artifacts, delivered>>
    /\ UNCHANGED notChunkVars

\* content = await chunk.read(); await f.write(content); the file is closed.
\* A handle whose directory was removed meanwhile writes to an unlinked file.
ChunkWrite(c) ==
    LET f == call[c].file_id
        name == ChunkName(call[c].chunk_index)
    IN
    /\ call[c].pc = "write"
    /\ IF call[c].detached
       THEN UNCHANGED staging
       ELSE staging' = [staging EXCEPT ![f].files[name] = WriteAt(@, 0, call[c].content)]
    /\ call' = [call EXCEPT ![c].pc = "check"]
    /\ UNCHANGED <<artifacts, delivered>>
    /\ UNCHANGED notChunkVars

ReceivedProgressBeforeThisChunk(n, total) == Rat((n - 1) * 100, total)

\* (uploaded_chunks / total_chunks) * 100
ReceivedProgress(n, total) == Rat(n * 100, total)

\* uploaded_chunks = len(glob); if uploaded_chunks == total_chunks the call goes
\* on to reassemble, else it answers chunk_received with the running progress.
ChunkCheck(c) ==
    LET f == call[c].file_id
        n == UploadedChunks(f)
    IN
    /\ call[c].pc = "check"
    /\ IF n = call[c].total_chunks
       THEN call' = [call EXCEPT ![c].pc = "final_open", ![c].resp.uploaded_chunks = n]
       ELSE call' = [call EXCEPT ![c].pc = "done",
                       ![c].resp = [status |-> "chunk_received", uploaded_chunks |-> n,
                                    progress |-> ReceivedProgress(n, call[c].total_chunks)]]
    /\ UNCHANGED <<staging, artifacts, delivered>>
    /\ UNCHANGED notChunkVars

\* aiofiles.open(final_file_path, 'wb'): the artifact is created or truncated.
FinalOpen(c) ==
    /\ call[c].pc = "final_open"
    /\ artifacts' = [artifacts EXCEPT ![call[c].filename] = [exists |-> TRUE, data |-> <<>>]]
    /\ call' = [call EXCEPT ![c].pc = "assemble", ![c].i = 0, ![c].offset = 0,
                            ![c].wrote_final = TRUE]
    /\ UNCHANGED <<staging, delivered>>
    /\ UNCHANGED notChunkVars

AssembleIndexFromOne(i) == i + 1

\* The index of the chunk that the i-th pass of the loop "for i in
\* range(total_chunks)" reads.
AssembleIndex(i) == i

StagingRemovedOnError(f) == [staging EXCEPT ![f] = NoDir]

\* The staging directories after the except clause of upload_file_chunk ran:
\* it raises HTTP 500 and removes nothing.
StagingAfterError(f) == staging

\* One pass of the reassembly loop: chunk i is opened and read, and its bytes are
\* written to the artifact at this call's file position.  A missing chunk file
\* raises (HTTP 500), leaving the staging directory as it is.  After the last
\* pass the artifact is closed.
AssembleChunk(c) ==
    LET f == call[c].file_id
        name == ChunkName(AssembleIndex(call[c].i))
        fn == call[c].filename
    IN
    /\ call[c].pc = "assemble"
    /\ call[c].i < call[c].total_chunks
    /\ IF staging[f].exists /\ name \in DOMAIN staging[f].files
       THEN LET data == staging[f].files[name]
            IN /\ artifacts' = [artifacts EXCEPT ![fn] =
                                  [exists |-> TRUE, data |-> WriteAt(@.data, call[c].offset, data)]]
               /\ call' = [call EXCEPT ![c].i = @ + 1, ![c].offset = @ + Len(data),
                             ![c].pc = IF call[c].i + 1 = call[c].total_chunks
                                       THEN "cleanup" ELSE "assemble"]
       ELSE /\ call' = [call EXCEPT ![c].pc = "done", ![c].resp = ErrorResp]
            /\ UNCHANGED artifacts
    /\ staging' = IF staging[f].exists /\ name \in DOMAIN staging[f].files
                  THEN staging ELSE StagingAfterError(f)
    /\ UNCHANGED delivered
    /\ UNCHANGED notChunkVars

\* shutil.rmtree(chunk_dir), which raises when the directory is gone, and the
\* answer "complete".  Calls that still hold an open chunk file of the removed
\* directory keep writing to an unlinked file.
ChunkCleanup(c) ==
    LET f == call[c].file_id
    IN
    /\ call[c].pc = "cleanup"
    /\ IF staging[f].exists
       THEN /\ staging' = [staging EXCEPT ![f] = NoDir]
            /\ call' = [d \in Slots |->
                          IF d = c
                          THEN [call[c] EXCEPT !.pc = "done", !.removed = TRUE,
                                               !.resp = CompleteResp(@.uploaded_chunks)]
                          ELSE IF call[d].file_id = f /\ call[d].pc = "write"
                               THEN [call[d] EXCEPT !.detached = TRUE]
                               ELSE call[d]]
       ELSE /\ call' = [call EXCEPT ![c].pc = "done", ![c].resp = ErrorResp]
            /\ UNCHANGED staging
    /\ UNCHANGED <<artifacts, delivered>>
    /\ UNCHANGED notChunkVars

(***************************************************************************)
(* Large-file pipeline: POST /api/upload/process, the background run of    *)
(* LargeFileProcessor.process_large_file, and the status store.            *)
(* Sizes are in MB.                                                        *)
(***************************************************************************)
MaxRuns == 2
MaxSheets == 2
MaxCancels == 2

MAX_FILE_SIZE == 200
CHUNK_SIZE == 64
MAX_ROWS_PER_CHUNK == 50000
PANDAS_MAX_ROWS == 1000000
JSON_STREAM_MIN_SIZE == 50
JSON_PROGRESS_EVERY == 10000
JSON_PROGRESS_SPAN == 100000

RunIds == 1..MaxRuns
PIds == {"p1", "p2"}

\* str.lower() on the suffixes the model uses.
Lower(sfx) ==
    CASE sfx = ".CSV" -> ".csv"
      [] sfx = ".XLSX" -> ".xlsx"
      [] sfx = ".Json" -> ".json"
      [] sfx = ".Xls" -> ".xls"
      [] sfx = ".TSV" -> ".tsv"
      [] sfx = ".tXt" -> ".txt"
      [] sfx = ".PDF" -> ".pdf"
      [] OTHER -> sfx

\* A file name is its stem and its suffix; Path(file.filename).suffix.lower().
FileExtension(filename) == Lower(filename[2])

allowed_extensions == {".csv", ".xlsx", ".xls", ".json", ".tsv", ".txt"}

ValidateFileExtensionFirst(filename, size) ==
    IF FileExtension(filename) \notin allowed_extensions THEN "unsupported"
    ELSE IF size > MAX_FILE_SIZE THEN "too_large"
    ELSE "ok"

\* LargeFileProcessor.validate_file: "ok", or the error it raises.
ValidateFile(filename, size) ==
    IF size > MAX_FILE_SIZE THEN "too_large"
    ELSE IF FileExtension(filename) \notin allowed_extensions THEN "unsupported"
    ELSE "ok"

\* TEMP_DIR / f"{processing_id}_{file.filename}"
TempPath(pid, filename) == <<pid, filename>>

\* A JSON-Lines file is a sequence of stretches of lines of one kind:
\* "ok" (a well-formed object), "bad" (malformed), "blank".
JLFiles ==
    { << [kind |-> "ok", n |-> 15000] >>,
      << [kind |-> "ok", n |-> 9999], [kind |-> "bad", n |-> 1], [kind |-> "ok", n |-> 5000] >>,
      << [kind |-> "ok", n |-> 5000], [kind |-> "blank", n |-> 1], [kind |-> "bad", n |-> 1],
         [kind |-> "ok", n |-> 14998] >>,
      << [kind |-> "ok", n |-> 14999], [kind |-> "bad", n |-> 1] >> }

RECURSIVE SegEnd(_, _)
\* The line number of the last line of stretch j of F (0 for j = 0).
SegEnd(F, j) == IF j = 0 THEN 0 ELSE SegEnd(F, j - 1) + F[j].n

JLLen(F) == SegEnd(F, Len(F))

KindAt(F, m) ==
    LET j == CHOOSE j \in 1..Len(F) : SegEnd(F, j - 1) < m /\ m <= SegEnd(F, j)
    IN F[j].kind

Min2(a, b) == IF a <= b THEN a ELSE b
Max2(a, b) == IF a >= b THEN a ELSE b

RECURSIVE OkUpTo(_, _, _)
\* The number of "ok" lines among the lines 1..m of the first j stretches of F.
OkUpTo(F, j, m) ==
    IF j = 0 THEN 0
    ELSE OkUpTo(F, j - 1, m)
         + (IF F[j].kind = "ok"
            THEN Max2(0, Min2(m, SegEnd(F, j)) - SegEnd(F, j - 1))
            ELSE 0)

\* json.loads succeeded on this many of the lines a+1..b.
ParsedIn(F, a, b) == OkUpTo(F, Len(F), b) - OkUpTo(F, Len(F), a)

\* The lines after line `from` at which _stream_large_json reports progress:
\* line_num % 10000 == 0, tested only after json.loads succeeded on the line.
ProgressLines(F, from) ==
    {m \in {JSON_PROGRESS_EVERY * q : q \in 1..(JLLen(F) \div JSON_PROGRESS_EVERY)} :
        m > from /\ KindAt(F, m) = "ok"}

SetMin(S) == CHOOSE x \in S : \A y \in S : x <= y
SetMax(S) == CHOOSE x \in S : \A y \in S : x >= y

\* line_count at the end of the loop: "line_count = line_num" is skipped by the
\* "continue" of a malformed line.
FinalLineCount(F) ==
    LET ends == {SegEnd(F, j) : j \in {k \in 1..Len(F) : F[k].kind # "bad" /\ F[k].n > 0}}
    IN IF ends = {} THEN 0 ELSE SetMax(ends)

(***************************************************************************)
(* The status store: a dict of dicts.                                      *)
(***************************************************************************)
NoRecord == [k \in {} |-> 0]
HasRecord(pid) == DOMAIN processing_status[pid] # {}

\* dict.update(patch)
Update(rec, patch) ==
    [k \in DOMAIN rec \cup DOMAIN patch |-> IF k \in DOMAIN patch THEN patch[k] ELSE rec[k]]

UploadingRecord(t) ==
    [status |-> "uploading", progress |-> RatInt(0), message |-> "Uploading file...",
     start_time |-> t]
ErrorRecord == [status |-> "error", progress |-> RatInt(0), message |-> "Error"]
CancelledRecord ==
    [status |-> "cancelled", progress |-> RatInt(0), message |-> "Processing cancelled by user"]

IdleRun ==
    [pc |-> "idle", processing_id |-> "p1", filename |-> <<"data", ".csv">>, size |-> 0,
     total_size |-> 0, rows |-> 0, count |-> 0, sheets |-> 0, source_type |-> "none",
     jl |-> <<>>, line_num |-> 0, parsed_objects |-> 0, line_count |-> 0]

IdleReader ==
    [pc |-> "idle", processing_id |-> "p1", last_progress |-> RatInt(-1), start_time |-> 0,
     status |-> NoRecord, emitted |-> <<>>, polls |-> 0]

InitPipe ==
    /\ processing_status = [p \in PIds |-> NoRecord]
    /\ tempfiles = {}
    /\ run = [r \in RunIds |-> IdleRun]
    /\ events = [r \in RunIds |-> <<>>]
    /\ cancels = 0
    /\ reader = IdleReader
    /\ now = 0

\* The endpoints that look a processing id up in the status store.
Endpoints == {"status", "stream", "cancel"}

NoAnswer == [code |-> 0, processing_id |-> "none", body |-> NoRecord]

\* raise HTTPException(status_code=404, detail="Processing ID not found")
NotFound(pid) ==
    [code |-> 404, processing_id |-> pid, body |-> [detail |-> "Processing ID not found"]]

Ok(pid, body) == [code |-> 200, processing_id |-> pid, body |-> body]

InitApi == answer = [e \in Endpoints |-> NoAnswer]

(***************************************************************************)
(* Notification hub: ConnectionManager, the state after manager =          *)
(* ConnectionManager().                                                    *)
(***************************************************************************)
MaxSockets == 2

Sockets == 1..MaxSockets
\* The callers of manager.broadcast, by the type of message they send: the
\* background run of a file and the hyperlocal data request.  Each is one
\* broadcast coroutine; the two can be suspended in their sends at once.
Broadcasts == {"file_processing_update", "data_update"}

\* A websocket: where its endpoint coroutine is ("none": no request yet,
\* "accepting": in await websocket.accept(), "open": in its update loop,
\* "closed": ended), and whether the peer has gone, so that sends raise.
IdleSocket == [pc |-> "none", broken |-> FALSE]

\* A broadcast frame: the list iterator's index i, the connection being sent
\* to, dead_connections; and its history: who was subscribed when it started,
\* the sockets it tried to send to with the outcome, in order, who was removed from the list by others
\* while it iterated, and whether the list changed while it iterated.
IdleBroadcast ==
    [pc |-> "idle", i |-> 0, connection |-> 0, dead_connections |-> <<>>,
     start |-> {}, tried |-> <<>>, unsub |-> {}, mutated |-> FALSE]

InitHub ==
    /\ active_connections = <<>>
    /\ socket = [s \in Sockets |-> IdleSocket]
    /\ bcast = [b \in Broadcasts |-> IdleBroadcast]

(***************************************************************************)
(* Result cache: AdvancedCache, the state after                            *)
(* cache = AdvancedCache(max_size=2000, ttl=600).  The model's max_size is *)
(* the bound CacheMaxSize.                                                 *)
(***************************************************************************)
CacheMaxSize == 2
MaxSets == 3
MaxTime == 1201

CACHE_TTL == 600

\* One key more than the cache may hold.
CacheKeys == 1..(CacheMaxSize + 1)

\* What get returns for a missing or expired key.
None == <<"None">>

\* The data a caller computes for the request of key k at time t.
ResultAt(k, t) == <<k, t>>

NoEntries == [k \in {} |-> <<>>]
NoWrite == [data |-> None, time |-> 0, evicted |-> FALSE]
NoGet == [key |-> 0, data |-> None, turn |-> FALSE]

InitCache ==
    /\ cache = NoEntries
    /\ access_times = <<>>
    /\ last_set = [k \in CacheKeys |-> NoWrite]
    /\ got = NoGet
    /\ ops = [sets |-> 0, stuck |-> FALSE]

(***************************************************************************)
(* Cache keys: AdvancedCache._generate_key and its caller analyze_data.     *)
(* A Python dict is the sequence of its (key, value) items in insertion     *)
(* order; a string is the sequence of its tokens.                           *)
(***************************************************************************)
KeyCalls == {"one", "other"}
NoCall == [made |-> FALSE]

\* Memory guardian: psutil's percent is a number of tenths of a percent; the
\* thread starts at the top of its loop, no sample taken.
MEMORY_THRESHOLD == 90
SAMPLE_INTERVAL == 5
ERROR_BACKOFF == 10
Percents == {0, 500, 1000} \cup 895..905
IdleGuardian ==
    [pc |-> "sample", taken |-> FALSE, ok |-> FALSE, percent |-> 0,
     collected |-> FALSE, remaining |-> 0, slept |-> 0, turn |-> FALSE]

\* POST /api/upload/validate: no request made.
NoValidation == [made |-> FALSE]

\* _analyze_columns and _generate_insights: no frame analysed.
NoAnalysis == [made |-> FALSE]

\* The hyperlocal file was not loaded, no request for the dataset was answered.
NoHyperlocal == [loaded |-> FALSE, loaded_at |-> 0, made |-> FALSE]

\* The callers of the cache as threads, each in a call of get or set or in
\* none; ret is what the thread's latest call returned (or raised).
Threads == {1, 2}
IdleThread == [pc |-> "idle", op |-> "none", key |-> 0, current_time |-> 0, ret |-> None]

InitSvc ==
    /\ keyed = [c \in KeyCalls |-> NoCall]
    /\ guardian = IdleGuardian
    /\ validated = NoValidation
    /\ lock = 0
    /\ thread = [t \in Threads |-> IdleThread]
    /\ analysed = NoAnalysis
    /\ hyper = NoHyperlocal

Init == InitChunk /\ InitPipe /\ InitApi /\ InitHub /\ InitCache /\ InitSvc

\* The pcs at which a run is in the middle of a stretch of synchronous code:
\* it holds the event loop, and no other coroutine runs.
RunningPcs ==
    {"csv_probe", "csv_full", "dask_read", "dask_len", "dask_sample", "df_70", "df_90",
     "chunks_open", "chunk_next", "xl_open", "xl_sheet", "json_stat", "json_load",
     "jl_open", "jl_scan", "except", "finally"}

LoopFree == \A r \in RunIds : run[r].pc \notin RunningPcs

\* May run r take a step that starts at pc `running` (in the middle of a
\* stretch) or at pc `suspended` (resuming after a yield)?
At(r, running, suspended) ==
    \/ run[r].pc = running
    \/ run[r].pc = suspended /\ LoopFree

Event(type, source) == [type |-> type, source |-> source]

\* process_large_file yields an event to _process_file_background, which awaits
\* manager.broadcast for it.
Yield(r, ev) == events' = [events EXCEPT ![r] = Append(@, ev)]

Pid(r) == run[r].processing_id
Path(r) == TempPath(run[r].processing_id, run[r].filename)

\* self.processing_status[processing_id].update(patch)
StatusUpdate(r, patch) ==
    processing_status' = [processing_status EXCEPT ![Pid(r)] = Update(@, patch)]

\* The f-string argument self.processing_status[processing_id]["start_time"] of
\* a complete event raises KeyError when the record has no start_time.
HasStartTime(st, pid) == "start_time" \in DOMAIN st[pid]

\* POST /api/upload/process: validate_file, then the background task is added
\* (it starts after the response was sent).
UploadAndProcess(r, pid, filename, size) ==
    /\ run[r].pc = "idle"
    /\ LoopFree
    /\ run' = [run EXCEPT ![r] =
                 [IdleRun EXCEPT !.processing_id = pid, !.filename = filename, !.size = size,
                                 !.pc = IF ValidateFile(filename, size) = "ok"
                                        THEN "scheduled" ELSE "rejected"]]
    /\ UNCHANGED <<processing_status, tempfiles, events, cancels, reader, now>>
    /\ UNCHANGED notRunVars

\* process_large_file up to its first await: the record is created with status
\* uploading, then the generator suspends in aiofiles.open(temp_file_path, 'wb').
RunBegin(r) ==
    /\ run[r].pc = "scheduled"
    /\ LoopFree
    /\ processing_status' = [processing_status EXCEPT ![Pid(r)] = UploadingRecord(now)]
    /\ run' = [run EXCEPT ![r].pc = "open"]
    /\ UNCHANGED <<tempfiles, events, cancels, reader, now>>
    /\ UNCHANGED notRunVars

\* aiofiles.open(temp_file_path, 'wb') creates the temporary file, or raises.
OpenTemp(r, ok) ==
    /\ run[r].pc = "open"
    /\ LoopFree
    /\ IF ok
       THEN /\ tempfiles' = tempfiles \cup {Path(r)}
            /\ run' = [run EXCEPT ![r].pc = "read"]
       ELSE /\ run' = [run EXCEPT ![r].pc = "except"]
            /\ UNCHANGED tempfiles
    /\ UNCHANGED <<processing_status, events, cancels, reader, now>>
    /\ UNCHANGED notRunVars

\* chunk := await file.read(CHUNK_SIZE): the next chunk, or b'' at the end of the
\* upload, which ends the loop and closes the temporary file.
ReadChunk(r) ==
    /\ run[r].pc = "read"
    /\ LoopFree
    /\ run' = [run EXCEPT ![r].pc = IF run[r].total_size < run[r].size
                                    THEN "write" ELSE "uploaded"]
    /\ UNCHANGED <<processing_status, tempfiles, events, cancels, reader, now>>
    /\ UNCHANGED notRunVars

\* min(50, (total_size / file.size) * 50) if file.size > 0 else 50
UploadProgress(total_size, size) ==
    IF size > 0 THEN RatMin(RatInt(50), Rat(total_size * 50, size)) ELSE RatInt(50)

\* await temp_file.write(chunk), then total_size and the record's progress are
\* updated and a progress event is yielded; a failed write raises.
WriteChunk(r, ok) ==
    LET total == run[r].total_size + Min2(CHUNK_SIZE, run[r].size - run[r].total_size)
        progress == UploadProgress(total, run[r].size)
    IN
    /\ run[r].pc = "write"
    /\ LoopFree
    /\ IF ok
       THEN /\ processing_status' =
                  [processing_status EXCEPT ![Pid(r)] = Update(@, [progress |-> progress])]
            /\ Yield(r, Event("progress", "upload"))
            /\ run' = [run EXCEPT ![r].pc = "read", ![r].total_size = total]
       ELSE /\ run' = [run EXCEPT ![r].pc = "except"]
            /\ UNCHANGED <<processing_status, events>>
    /\ UNCHANGED <<tempfiles, cancels, reader, now>>
    /\ UNCHANGED notRunVars

\* Can the pandas, openpyxl and json readers read the temporary file of run r
\* at all?  Not when it is missing, and not when it is empty.
Readable(r) == Path(r) \in tempfiles /\ run[r].total_size > 0

\* The parser process_large_file dispatches to, by file extension.
ParserFor(filename) ==
    LET e == FileExtension(filename)
    IN IF e \in {".csv", ".tsv", ".txt"} THEN "csv_probe"
       ELSE IF e \in {".xlsx", ".xls"} THEN "xl_open"
       ELSE IF e = ".json" THEN "json_stat"
       ELSE "finally"

\* After the upload: the record is updated to status processing, progress 50,
\* the encoding is detected and the parser of the file's family starts.
SetProcessing(r) ==
    /\ run[r].pc = "uploaded"
    /\ LoopFree
    /\ StatusUpdate(r, [status |-> "processing", progress |-> RatInt(50),
                        message |-> "Processing file..."])
    /\ run' = [run EXCEPT ![r].pc = ParserFor(run[r].filename)]
    /\ UNCHANGED <<tempfiles, events, cancels, reader, now>>
    /\ UNCHANGED notRunVars

\* except Exception of process_large_file: the record is replaced by an error
\* record and an error event is yielded.
Except(r) ==
    /\ run[r].pc = "except"
    /\ processing_status' = [processing_status EXCEPT ![Pid(r)] = ErrorRecord]
    /\ Yield(r, Event("error", "upload"))
    /\ run' = [run EXCEPT ![r].pc = "yielded_last"]
    /\ UNCHANGED <<tempfiles, cancels, reader, now>>
    /\ UNCHANGED notRunVars

TempFilesKeptOnError(r) ==
    IF events[r] # <<>> /\ events[r][Len(events[r])].type = "error"
    THEN tempfiles ELSE tempfiles \ {Path(r)}

\* The files left by the finally clause: if temp_file_path.exists():
\* temp_file_path.unlink()
TempFilesAfterCleanup(r) == tempfiles \ {Path(r)}

\* The generator ends (after its last yield, or after a parser that yields
\* nothing more): the finally clause removes the temporary file.
Finally(r) ==
    /\ At(r, "finally", "yielded_last")
    /\ tempfiles' = TempFilesAfterCleanup(r)
    /\ run' = [run EXCEPT ![r].pc = "done"]
    /\ UNCHANGED <<processing_status, events, cancels, reader, now>>
    /\ UNCHANGED notRunVars

\* A parser's except clause: an error event is yielded, the record is left alone.
ParserError(r, source) ==
    /\ Yield(r, Event("error", source))
    /\ run' = [run EXCEPT ![r].pc = "yielded_last"]
    /\ UNCHANGED processing_status

(***************************************************************************)
(* Delimited text: _process_csv_file.                                      *)
(***************************************************************************)
RowCounts == {10, 120000, PANDAS_MAX_ROWS, PANDAS_MAX_ROWS + 1}

\* pd.read_csv(nrows=1000) and the count of the file's lines: the in-memory
\* reader for up to 1,000,000 rows, the partitioned reader above; any failure
\* falls back to row-chunked reading.
CsvProbe(r, ok, rows) ==
    /\ run[r].pc = "csv_probe"
    /\ ok => Readable(r)
    /\ run' = [run EXCEPT ![r].rows = rows,
                          ![r].pc = IF ~ok THEN "chunks_open"
                                    ELSE IF rows <= PANDAS_MAX_ROWS THEN "csv_full"
                                    ELSE "dask_read"]
    /\ UNCHANGED <<processing_status, tempfiles, events, cancels, reader, now>>
    /\ UNCHANGED notRunVars

\* df = pd.read_csv(file_path, ...): the whole file in memory.
CsvFull(r, ok) ==
    /\ run[r].pc = "csv_full"
    /\ run' = [run EXCEPT ![r].pc = IF ok THEN "df_70" ELSE "chunks_open",
                          ![r].source_type = IF ok THEN "pandas" ELSE @]
    /\ UNCHANGED <<processing_status, tempfiles, events, cancels, reader, now>>
    /\ UNCHANGED notRunVars

\* ddf = dd.read_csv(file_path, ...)
DaskRead(r, ok) ==
    /\ run[r].pc = "dask_read"
    /\ run' = [run EXCEPT ![r].pc = IF ok THEN "dask_len" ELSE "chunks_open"]
    /\ UNCHANGED <<processing_status, tempfiles, events, cancels, reader, now>>
    /\ UNCHANGED notRunVars

\* _process_dataframe, first part: progress 70, then the analysis.
Df70(r, ok) ==
    /\ run[r].pc = "df_70"
    /\ StatusUpdate(r, [progress |-> RatInt(70), message |-> "Analyzing"])
    /\ IF ok
       THEN /\ run' = [run EXCEPT ![r].pc = "df_90"]
            /\ UNCHANGED events
       ELSE /\ Yield(r, Event("error", "dataframe"))
            /\ run' = [run EXCEPT ![r].pc = "yielded_last"]
    /\ UNCHANGED <<tempfiles, cancels, reader, now>>
    /\ UNCHANGED notRunVars

\* _process_dataframe, second part: progress 90, the insights, and the complete
\* event (whose processing_time reads the record's start_time).
Df90(r, ok) ==
    /\ run[r].pc = "df_90"
    /\ StatusUpdate(r, [progress |-> RatInt(90), message |-> "Generating insights..."])
    /\ IF ok /\ HasStartTime(processing_status, Pid(r))
       THEN /\ Yield(r, Event("complete", run[r].source_type))
            /\ run' = [run EXCEPT ![r].pc = "df_yielded"]
       ELSE /\ Yield(r, Event("error", "dataframe"))
            /\ run' = [run EXCEPT ![r].pc = "yielded_last"]
    /\ UNCHANGED <<tempfiles, cancels, reader, now>>
    /\ UNCHANGED notRunVars

\* _process_dataframe after its complete event: the record becomes complete.
DfComplete(r) ==
    /\ run[r].pc = "df_yielded"
    /\ LoopFree
    /\ StatusUpdate(r, [status |-> "complete", progress |-> RatInt(100),
                        message |-> "Processing complete"])
    /\ run' = [run EXCEPT ![r].pc = "finally"]
    /\ UNCHANGED <<tempfiles, events, cancels, reader, now>>
    /\ UNCHANGED notRunVars

\* _process_dask_dataframe: rows = len(ddf), then progress 70.
DaskLen(r, ok) ==
    /\ run[r].pc = "dask_len"
    /\ IF ok
       THEN /\ StatusUpdate(r, [progress |-> RatInt(70), message |-> "Processing large dataset"])
            /\ run' = [run EXCEPT ![r].pc = "dask_sample"]
            /\ UNCHANGED events
       ELSE ParserError(r, "dask")
    /\ UNCHANGED <<tempfiles, cancels, reader, now>>
    /\ UNCHANGED notRunVars

\* _process_dask_dataframe: the sample, the analysis and the complete event.
DaskSample(r, ok) ==
    /\ run[r].pc = "dask_sample"
    /\ IF ok /\ HasStartTime(processing_status, Pid(r))
       THEN /\ Yield(r, Event("complete", "dask"))
            /\ run' = [run EXCEPT ![r].pc = "yielded_last"]
            /\ UNCHANGED processing_status
       ELSE ParserError(r, "dask")
    /\ UNCHANGED <<tempfiles, cancels, reader, now>>
    /\ UNCHANGED notRunVars

\* _process_csv_chunks: pd.read_csv(..., chunksize=MAX_ROWS_PER_CHUNK) opens the file.
ChunksOpen(r, ok) ==
    /\ run[r].pc = "chunks_open"
    /\ ok => Readable(r)
    /\ IF ok
       THEN /\ run' = [run EXCEPT ![r].pc = "chunk_next", ![r].count = 0]
            /\ UNCHANGED <<events, processing_status>>
       ELSE ParserError(r, "csv_chunks")
    /\ UNCHANGED <<tempfiles, cancels, reader, now>>
    /\ UNCHANGED notRunVars

\* min(90, chunks_processed * 10)
ChunkProgress(chunks_processed) ==
    RatInt(Min2(90, chunks_processed * 10))

\* _process_csv_chunks: one pass of the loop over the row chunks (the first one
\* yields a chunk_analysis event), or the complete event after the last chunk.
ChunkNext(r, ok) ==
    /\ At(r, "chunk_next", "chunk_yielded")
    /\ IF run[r].count * MAX_ROWS_PER_CHUNK < run[r].rows
       THEN IF ok
            THEN /\ StatusUpdate(r, [progress |-> ChunkProgress(run[r].count + 1),
                                     message |-> "Processed rows"])
                 /\ IF run[r].count = 0
                    THEN /\ Yield(r, Event("chunk_analysis", "csv_chunks"))
                         /\ run' = [run EXCEPT ![r].pc = "chunk_yielded", ![r].count = 1]
                    ELSE /\ run' = [run EXCEPT ![r].pc = "chunk_next", ![r].count = @ + 1]
                         /\ UNCHANGED events
            ELSE ParserError(r, "csv_chunks")
       ELSE /\ ok
            /\ IF HasStartTime(processing_status, Pid(r))
               THEN /\ Yield(r, Event("complete", "csv_chunks"))
                    /\ run' = [run EXCEPT ![r].pc = "yielded_last"]
                    /\ UNCHANGED processing_status
               ELSE ParserError(r, "csv_chunks")
    /\ UNCHANGED <<tempfiles, cancels, reader, now>>
    /\ UNCHANGED notRunVars

(***************************************************************************)
(* Spreadsheets: _process_excel_file.                                      *)
(***************************************************************************)
\* workbook = openpyxl.load_workbook(file_path, read_only=True)
XlOpen(r, ok, n) ==
    /\ run[r].pc = "xl_open"
    /\ ok => Readable(r)
    /\ IF ok
       THEN /\ run' = [run EXCEPT ![r].pc = "xl_sheet", ![r].sheets = n, ![r].count = 0]
            /\ UNCHANGED <<events, processing_status>>
       ELSE ParserError(r, "excel")
    /\ UNCHANGED <<tempfiles, cancels, reader, now>>
    /\ UNCHANGED notRunVars

\* 50 + (i / len(sheet_names)) * 40
SheetProgress(i, n) == Rat(50 * n + 40 * i, n)

\* One pass of the loop over the sheets: the progress is updated, the sheet is
\* read and a sheet_processed event is yielded; after the last sheet the
\* workbook is closed and the generator ends.
XlSheet(r, ok) ==
    /\ At(r, "xl_sheet", "xl_yielded")
    /\ IF run[r].count < run[r].sheets
       THEN /\ StatusUpdate(r, [progress |-> SheetProgress(run[r].count, run[r].sheets),
                                message |-> "Processing sheet"])
            /\ IF ok
               THEN /\ Yield(r, Event("sheet_processed", "excel"))
                    /\ run' = [run EXCEPT ![r].pc = "xl_yielded", ![r].count = @ + 1]
               ELSE /\ Yield(r, Event("error", "excel"))
                    /\ run' = [run EXCEPT ![r].pc = "yielded_last"]
       ELSE /\ ok
            /\ run' = [run EXCEPT ![r].pc = "finally"]
            /\ UNCHANGED <<events, processing_status>>
    /\ UNCHANGED <<tempfiles, cancels, reader, now>>
    /\ UNCHANGED notRunVars

(***************************************************************************)
(* JSON: _process_json_file and _stream_large_json.                        *)
(***************************************************************************)
\* file_size = file_path.stat().st_size and the choice between loading the
\* document and streaming it.
JsonStat(r) ==
    /\ run[r].pc = "json_stat"
    /\ IF Path(r) \notin tempfiles
       THEN ParserError(r, "json")
       ELSE /\ run' = [run EXCEPT ![r].pc = IF run[r].total_size < JSON_STREAM_MIN_SIZE
                                            THEN "json_load" ELSE "jl_open"]
            /\ UNCHANGED <<events, processing_status>>
    /\ UNCHANGED <<tempfiles, cancels, reader, now>>
    /\ UNCHANGED notRunVars

\* data = json.load(f): a list goes to the shared analysis, any other document
\* is yielded as a json_object event, a decoding failure as an error event.
JsonLoad(r, doc) ==
    /\ run[r].pc = "json_load"
    /\ doc # "invalid" => Readable(r)
    /\ IF doc = "invalid"
       THEN ParserError(r, "json")
       ELSE IF doc = "list"
       THEN /\ run' = [run EXCEPT ![r].pc = "df_70", ![r].source_type = "json"]
            /\ UNCHANGED <<events, processing_status>>
       ELSE /\ Yield(r, Event("json_object", "json"))
            /\ run' = [run EXCEPT ![r].pc = "yielded_last"]
            /\ UNCHANGED processing_status
    /\ UNCHANGED <<tempfiles, cancels, reader, now>>
    /\ UNCHANGED notRunVars

\* _stream_large_json opens the file.
JlOpen(r, ok, F) ==
    /\ run[r].pc = "jl_open"
    /\ IF ok
       THEN /\ run' = [run EXCEPT ![r].pc = "jl_scan", ![r].jl = F, ![r].line_num = 0,
                                  ![r].parsed_objects = 0]
            /\ UNCHANGED <<events, processing_status>>
       ELSE ParserError(r, "json_stream")
    /\ UNCHANGED <<tempfiles, cancels, reader, now>>
    /\ UNCHANGED notRunVars

\* min(90, (line_num / 100000) * 90)
JsonProgress(line_num) ==
    RatMin(RatInt(90), Rat(line_num * 90, JSON_PROGRESS_SPAN))

\* _stream_large_json reads on to the next line at which it reports progress
\* (record update and progress event), or to the end of the file, where it
\* yields the complete event.
JlScan(r) ==
    LET F == run[r].jl
        stops == ProgressLines(F, run[r].line_num)
    IN
    /\ At(r, "jl_scan", "jl_yielded")
    /\ IF stops # {}
       THEN LET m == SetMin(stops)
            IN /\ StatusUpdate(r, [progress |-> JsonProgress(m),
                                   message |-> "Processed JSON objects"])
               /\ Yield(r, Event("progress", "json_stream"))
               /\ run' = [run EXCEPT ![r].pc = "jl_yielded", ![r].line_num = m,
                            ![r].parsed_objects = @ + ParsedIn(F, run[r].line_num, m)]
       ELSE IF HasStartTime(processing_status, Pid(r))
       THEN /\ Yield(r, Event("complete", "json_stream"))
            /\ run' = [run EXCEPT ![r].pc = "yielded_last", ![r].line_num = JLLen(F),
                         ![r].line_count = FinalLineCount(F),
                         ![r].parsed_objects = @ + ParsedIn(F, run[r].line_num, JLLen(F))]
            /\ UNCHANGED processing_status
       ELSE ParserError(r, "json_stream")
    /\ UNCHANGED <<tempfiles, cancels, reader, now>>
    /\ UNCHANGED notRunVars

(***************************************************************************)
(* DELETE /api/upload/cancel/{processing_id}                               *)
(***************************************************************************)
CancelProcessing(pid) ==
    /\ LoopFree
    /\ cancels < MaxCancels
    /\ cancels' = cancels + 1
    /\ IF HasRecord(pid)
       THEN /\ processing_status' = [processing_status EXCEPT ![pid] = CancelledRecord]
            /\ answer' = [answer EXCEPT !["cancel"] = Ok(pid, [status |-> "cancelled"])]
       ELSE /\ UNCHANGED processing_status
            /\ answer' = [answer EXCEPT !["cancel"] = NotFound(pid)]
    /\ UNCHANGED <<tempfiles, run, events, reader, now>>
    /\ UNCHANGED notApiVars

PipeFiles == {<<"data", ".csv">>, <<"book", ".xlsx">>, <<"doc", ".json">>, <<"scan", ".pdf">>}
FileSizes == {0, 40, 130, MAX_FILE_SIZE + 1}
JsonDocs == {"list", "object", "invalid"}

\* One pipeline run, with cancel requests at any time.
NextPipe ==
    \/ \E f \in PipeFiles, sz \in FileSizes : UploadAndProcess(1, "p1", f, sz)
    \/ RunBegin(1)
    \/ \E ok \in BOOLEAN : OpenTemp(1, ok)
    \/ ReadChunk(1)
    \/ \E ok \in BOOLEAN : WriteChunk(1, ok)
    \/ SetProcessing(1)
    \/ Except(1)
    \/ Finally(1)
    \/ \E ok \in BOOLEAN, rows \in RowCounts : CsvProbe(1, ok, rows)
    \/ \E ok \in BOOLEAN : CsvFull(1, ok)
    \/ \E ok \in BOOLEAN : DaskRead(1, ok)
    \/ \E ok \in BOOLEAN : Df70(1, ok)
    \/ \E ok \in BOOLEAN : Df90(1, ok)
    \/ DfComplete(1)
    \/ \E ok \in BOOLEAN : DaskLen(1, ok)
    \/ \E ok \in BOOLEAN : DaskSample(1, ok)
    \/ \E ok \in BOOLEAN : ChunksOpen(1, ok)
    \/ \E ok \in BOOLEAN : ChunkNext(1, ok)
    \/ \E ok \in BOOLEAN, n \in 1..MaxSheets : XlOpen(1, ok, n)
    \/ \E ok \in BOOLEAN : XlSheet(1, ok)
    \/ JsonStat(1)
    \/ \E doc \in JsonDocs : JsonLoad(1, doc)
    \/ \E ok \in BOOLEAN, F \in JLFiles : JlOpen(1, ok, F)
    \/ JlScan(1)
    \/ CancelProcessing("p1")

SpecPipe == Init /\ [][NextPipe]_vars

(***************************************************************************)
(* GET /api/upload/stream/{processing_id}: generate_updates.               *)
(***************************************************************************)
MaxPolls == 3
STREAM_TIMEOUT == 600
POLL_INTERVAL == 1

TimeoutEvent == [status |-> "timeout", message |-> "Processing timeout"]

\* The handler: 404 for an unknown id, else the streaming response is started.
StreamRequest(pid) ==
    /\ reader.pc = "idle"
    /\ LoopFree
    /\ reader' = [IdleReader EXCEPT !.processing_id = pid,
                                    !.pc = IF HasRecord(pid) THEN "start" ELSE "not_found"]
    /\ answer' = [answer EXCEPT !["stream"] =
                      IF HasRecord(pid) THEN Ok(pid, [streaming |-> TRUE]) ELSE NotFound(pid)]
    /\ UNCHANGED <<processing_status, tempfiles, run, events, cancels, now>>
    /\ UNCHANGED notApiVars

StatusAnswerDefault(pid) == Ok(pid, processing_status[pid])

\* status = processing_status.get(processing_id); if not status: 404; else the
\* record is answered.
StatusAnswer(pid) ==
    IF DOMAIN processing_status[pid] = {} THEN NotFound(pid) ELSE Ok(pid, processing_status[pid])

\* GET /api/upload/status/{processing_id}
GetStatus(pid) ==
    /\ LoopFree
    /\ answer' = [answer EXCEPT !["status"] = StatusAnswer(pid)]
    /\ UNCHANGED pipeVars
    /\ UNCHANGED notApiVars

\* The statuses at which generate_updates breaks out of its loop.
ReaderStopsAt == {"complete", "error"}

TimedOutNever(elapsed) == FALSE

\* if time.time() - start_time > 600
TimedOut(elapsed) == elapsed > STREAM_TIMEOUT

\* One pass of the loop of generate_updates, from reading the record to
\* asyncio.sleep(1): the record is emitted when its progress differs from the
\* last one emitted; the loop ends at a status it stops at or after 600 s.
Poll ==
    LET first == reader.pc = "start"
        start == IF first THEN now ELSE reader.start_time
        status == processing_status[reader.processing_id]
        changed == ~RatEq(status.progress, reader.last_progress)
        stop == status.status \in ReaderStopsAt
        timeout == ~stop /\ TimedOut(now - start)
        out == (IF changed THEN <<status>> ELSE <<>>)
               \o (IF timeout THEN <<TimeoutEvent>> ELSE <<>>)
    IN
    /\ reader.pc \in {"start", "woken"}
    /\ LoopFree
    /\ IF ~HasRecord(reader.processing_id)
       THEN reader' = [reader EXCEPT !.pc = "done", !.start_time = start,
                                     !.status = status, !.polls = @ + 1]
       ELSE reader' = [reader EXCEPT
                          !.pc = IF stop \/ timeout THEN "done" ELSE "sleep",
                          !.start_time = start,
                          !.status = status,
                          !.polls = @ + 1,
                          !.last_progress = IF changed THEN status.progress ELSE @,
                          !.emitted = @ \o out]
    /\ UNCHANGED <<processing_status, tempfiles, run, events, cancels, now>>
    /\ UNCHANGED notRunVars

\* await asyncio.sleep(1) returns after d >= 1 seconds.
Slept(d) ==
    /\ reader.pc = "sleep"
    /\ LoopFree
    /\ d >= POLL_INTERVAL
    /\ now' = now + d
    /\ reader' = [reader EXCEPT !.pc = "woken"]
    /\ UNCHANGED <<processing_status, tempfiles, run, events, cancels>>
    /\ UNCHANGED notRunVars

\* The sleep of one of the first MaxPolls passes of the loop.
Sleep(d) == reader.polls < MaxPolls /\ Slept(d)

\* One pipeline run on a delimited-text file, cancel requests and one
\* streaming reader.
NextStream ==
    \/ \E sz \in {0, 40} : UploadAndProcess(1, "p1", <<"data", ".csv">>, sz)
    \/ RunBegin(1)
    \/ \E ok \in BOOLEAN : OpenTemp(1, ok)
    \/ ReadChunk(1)
    \/ \E ok \in BOOLEAN : WriteChunk(1, ok)
    \/ SetProcessing(1)
    \/ Except(1)
    \/ Finally(1)
    \/ \E ok \in BOOLEAN : CsvProbe(1, ok, 10)
    \/ \E ok \in BOOLEAN : CsvFull(1, ok)
    \/ \E ok \in BOOLEAN : Df70(1, ok)
    \/ \E ok \in BOOLEAN : Df90(1, ok)
    \/ DfComplete(1)
    \/ \E ok \in BOOLEAN : ChunksOpen(1, ok)
    \/ \E ok \in BOOLEAN : ChunkNext(1, ok)
    \/ CancelProcessing("p1")
    \/ StreamRequest("p1")
    \/ GetStatus("p1")
    \/ Poll
    \/ \E d \in {POLL_INTERVAL, STREAM_TIMEOUT} : Sleep(d)

SpecStream == Init /\ [][NextStream]_vars

(***************************************************************************)
(* Properties of the pipeline and of the status store.                     *)
(***************************************************************************)
NonTerminal == {"uploading", "processing"}
Terminal == {"complete", "error", "cancelled"}

HasEvent(r, type) == \E k \in 1..Len(events[r]) : events[r][k].type = type
LastEvent(r) == events[r][Len(events[r])]

\* C3: while the record of a processing id has status uploading or processing,
\* its progress never decreases from one state to the next.
C3_ProgressNeverDecreases ==
    [][\A p \in PIds :
         (/\ HasRecord(p)
          /\ processing_status[p].status \in NonTerminal
          /\ processing_status'[p].status \in NonTerminal)
            => RatLeq(processing_status[p].progress, processing_status'[p].progress)]_vars

\* C4: every change of a record's status is uploading -> processing,
\* processing -> complete, processing -> error, or uploading/processing ->
\* cancelled; no change leaves complete, error or cancelled.
C4_StatusTransitions ==
    [][\A p \in PIds :
         (HasRecord(p) /\ processing_status'[p].status # processing_status[p].status)
            => <<processing_status[p].status, processing_status'[p].status>> \in
                  {<<"uploading", "processing">>, <<"processing", "complete">>,
                   <<"processing", "error">>, <<"uploading", "cancelled">>,
                   <<"processing", "cancelled">>}]_vars

\* C5: a run that has ended has emitted exactly one terminal event (complete or
\* error), and that event is its last event.
C5_OneTerminalEventLast ==
    \A r \in RunIds :
        run[r].pc = "done"
            => /\ events[r] # <<>>
               /\ LastEvent(r).type \in {"complete", "error"}
               /\ Cardinality({k \in 1..Len(events[r]) :
                                  events[r][k].type \in {"complete", "error"}}) = 1

\* C6: when a run that emitted a complete event has ended (and nobody asked to
\* cancel), its record has status complete and progress 100.
C6_CompleteIsRecorded ==
    \A r \in RunIds :
        (run[r].pc = "done" /\ cancels = 0 /\ HasEvent(r, "complete"))
            => /\ processing_status[Pid(r)].status = "complete"
               /\ RatEq(processing_status[Pid(r)].progress, RatInt(100))

\* C7: when a run in which a parser failed has ended (and nobody asked to
\* cancel), its record has status error and carries a message.
C7_FailureIsRecorded ==
    \A r \in RunIds :
        (run[r].pc = "done" /\ cancels = 0 /\ HasEvent(r, "error"))
            => /\ processing_status[Pid(r)].status = "error"
               /\ "message" \in DOMAIN processing_status[Pid(r)]

\* C8: at the step at which a run ends, its temporary file does not exist.
C8_TempFileRemoved ==
    [][\A r \in RunIds :
         (run[r].pc # "done" /\ run'[r].pc = "done") => Path(r) \notin tempfiles']_vars

\* C8 witness: a run that wrote uploaded bytes to its temporary file and then
\* failed has ended, and the file is gone.
C8_Witness ==
    /\ run[1].pc = "done"
    /\ run[1].total_size > 0
    /\ HasEvent(1, "error")
    /\ Path(1) \notin tempfiles

\* C9: once a record has a terminal status, no step changes the record, and the
\* run of that processing id emits no further event.
C9_TerminalIsAbsorbing ==
    [][\A p \in PIds :
         (HasRecord(p) /\ processing_status[p].status \in Terminal)
            => /\ processing_status'[p] = processing_status[p]
               /\ \A r \in RunIds : Pid(r) = p => events'[r] = events[r]]_vars

\* C10: a streaming reader that goes on to sleep and poll again has not just
\* observed a terminal status.
C10_ReaderStopsAtTerminal ==
    reader.pc \in {"sleep", "woken"} => reader.status.status \notin Terminal

\* Chunk uploads delivered one after another, for one file_id and one filename.
NextChunkSeq ==
    \/ \E idx \in 0..(MaxChunks - 1), total \in 1..MaxChunks :
          PutChunkSeq(1, "f1", idx, total, "a.csv", Payload(idx, Attempts("f1", idx)))
    \/ ChunkOpen(1)
    \/ ChunkWrite(1)
    \/ ChunkCheck(1)
    \/ FinalOpen(1)
    \/ AssembleChunk(1)
    \/ ChunkCleanup(1)

SpecChunkSeq == Init /\ [][NextChunkSeq]_vars

\* Chunk uploads of one file_id, a file of MaxSlots chunks, whose calls
\* interleave at their suspension points (retransmissions included).
NextChunkConc ==
    \E c \in Slots :
        \/ \E idx \in 0..(MaxSlots - 1) :
              PutChunk(c, "f1", idx, MaxSlots, "a.csv", Payload(idx, Attempts("f1", idx)))
        \/ ChunkOpen(c)
        \/ ChunkWrite(c)
        \/ ChunkCheck(c)
        \/ FinalOpen(c)
        \/ AssembleChunk(c)
        \/ ChunkCleanup(c)

SpecChunkConc == Init /\ [][NextChunkConc]_vars

(***************************************************************************)
(* Properties of the chunk store.                                          *)
(***************************************************************************)
RECURSIVE OriginalFile(_)
\* The file whose N chunks are Payload(0, 0), ..., Payload(N-1, 0).
OriginalFile(N) == IF N = 0 THEN <<>> ELSE OriginalFile(N - 1) \o Payload(N - 1, 0)

\* The calls made so far for fid delivered each chunk 0..N-1 exactly once.
IsPermutation(fid, N) ==
    /\ Len(delivered[fid].order) = N
    /\ {delivered[fid].order[k] : k \in 1..N} = 0..(N - 1)

NoCallInFlight == \A c \in Slots : call[c].pc \in {"idle", "done"}

\* C1: after the N chunks of a file were delivered one after another, in any
\* order, each call declaring N chunks, the artifact exists and holds the
\* chunks concatenated in ascending index order: the original file.
C1_ReassembledInOrder ==
    \A N \in 1..MaxChunks :
        (NoCallInFlight /\ IsPermutation("f1", N) /\ delivered["f1"].totals = {N})
            => /\ artifacts["a.csv"].exists
               /\ artifacts["a.csv"].data = OriginalFile(N)

\* C1 witness: all chunks of a file of at least two chunks arrived, the chunk
\* with index 0 not first, and the artifact is the original file.
C1_Witness ==
    /\ NoCallInFlight
    /\ Len(delivered["f1"].order) >= 2
    /\ IsPermutation("f1", Len(delivered["f1"].order))
    /\ delivered["f1"].totals = {Len(delivered["f1"].order)}
    /\ delivered["f1"].order[1] # 0
    /\ artifacts["a.csv"].data = OriginalFile(Len(delivered["f1"].order))

\* The calls made so far for fid are the chunks of one upload, each delivered
\* at most once and all declaring the same total.
CleanUpload(fid) ==
    /\ Cardinality(delivered[fid].totals) <= 1
    /\ \A j, k \in 1..Len(delivered[fid].order) :
          delivered[fid].order[j] = delivered[fid].order[k] => j = k
    /\ \A k \in 1..Len(delivered[fid].order) :
          \A t \in delivered[fid].totals : delivered[fid].order[k] < t

\* C2: when the calls of one upload interleave, at most one call writes the
\* artifact, at most one removes the staging directory, and once all N calls
\* have answered exactly one of them answered complete.
C2_AssembledOnce ==
    CleanUpload("f1") =>
        /\ Cardinality({c \in Slots : call[c].pc # "idle" /\ call[c].wrote_final}) <= 1
        /\ Cardinality({c \in Slots : call[c].pc # "idle" /\ call[c].removed}) <= 1
        /\ \A N \in 1..MaxSlots :
              (NoCallInFlight /\ IsPermutation("f1", N) /\ delivered["f1"].totals = {N})
                 => Cardinality({c \in Slots : call[c].pc = "done"
                                                /\ call[c].resp.status = "complete"}) = 1

(***************************************************************************)
(* Properties of the streaming reader and of the status endpoints.         *)
(***************************************************************************)
\* The records a reader has emitted that carry a progress value (the timeout
\* event carries none).
EmittedProgress ==
    SelectSeq(reader.emitted, LAMBDA e : "progress" \in DOMAIN e)

\* C11: the progress values one streaming reader has emitted, in the order of
\* emission, never decrease.
C11_ReaderProgressMonotone ==
    \A j, k \in 1..Len(EmittedProgress) :
        j < k => RatLeq(EmittedProgress[j].progress, EmittedProgress[k].progress)

\* C12: a status, stream or cancel request for a processing id that has no
\* record is answered 404 (not found), and the status store is left as it was.
C12_UnknownIdNotFound ==
    [][\A e \in Endpoints, p \in PIds :
         (~HasRecord(p) /\ answer'[e] # answer[e] /\ answer'[e].processing_id = p)
            => /\ answer'[e] = NotFound(p)
               /\ processing_status' = processing_status]_vars

\* C12 witness: each of the three endpoints has answered not-found for an id
\* that has no record.
C12_Witness ==
    /\ ~HasRecord("p1")
    /\ \A e \in Endpoints : answer[e] = NotFound("p1")

(***************************************************************************)
(* Further properties of the chunk store.                                  *)
(***************************************************************************)
\* The chunk indices delivered so far for fid.
DeliveredIndices(fid) == {delivered[fid].order[k] : k \in 1..Len(delivered[fid].order)}

\* C13: while no reassembly has started, however often each index was
\* delivered, the staging directory holds exactly one chunk file per delivered
\* index, holding the bytes of its latest delivery, and the latest call
\* answered chunk_received with the number of distinct indices as its count
\* and the progress computed from it.
C13_ChunkWriteIdempotent ==
    (NoCallInFlight /\ ~artifacts["a.csv"].exists) =>
        LET idxs == DeliveredIndices("f1")
            files == staging["f1"].files
        IN /\ DOMAIN files = {ChunkName(i) : i \in idxs}
           /\ Cardinality(DOMAIN files) = Cardinality(idxs)
           /\ \A i \in idxs : files[ChunkName(i)] = Payload(i, Attempts("f1", i) - 1)
           /\ call[1].pc = "done" =>
                 /\ call[1].resp.status = "chunk_received"
                 /\ call[1].resp.uploaded_chunks = Cardinality(idxs)
                 /\ RatEq(call[1].resp.progress,
                          Rat(Cardinality(idxs) * 100, call[1].total_chunks))

\* C13 witness: one index was delivered three times (short, long, short bytes)
\* and another index once, no reassembly has started, and the last call has
\* answered.
C13_Witness ==
    /\ NoCallInFlight
    /\ ~artifacts["a.csv"].exists
    /\ call[1].pc = "done"
    /\ \E i \in DeliveredIndices("f1") : Attempts("f1", i) = 3
    /\ Cardinality(DeliveredIndices("f1")) = 2

\* C14: a call that has answered answered either complete or chunk_received;
\* it answered complete exactly when the count of chunk files it found after
\* persisting its chunk equalled its total_chunks, and a call that answered
\* chunk_received has not written the artifact.
C14_CompleteIffCountEqualsTotal ==
    call[1].pc = "done" =>
        /\ call[1].resp.status \in {"complete", "chunk_received"}
        /\ call[1].resp.status = "complete"
              <=> call[1].resp.uploaded_chunks = call[1].total_chunks
        /\ call[1].resp.status = "chunk_received" => ~call[1].wrote_final

C16_KthCallProgress ==
    \A N \in 1..MaxChunks :
        (/\ call[1].pc = "done"
         /\ CleanUpload("f1")
         /\ delivered["f1"].totals = {N})
            => LET k == Len(delivered["f1"].order)
               IN IF k < N
                  THEN /\ call[1].resp.status = "chunk_received"
                       /\ call[1].resp.uploaded_chunks = k
                       /\ RatEq(call[1].resp.progress, Rat(k * 100, N))
                  ELSE /\ call[1].resp.status = "complete"
                       /\ call[1].resp.ready_for_processing

\* C16 witness: the three chunks of an upload arrived in the order 2, 0, 1 and
\* the third call answered complete.
C16_Witness ==
    /\ call[1].pc = "done"
    /\ delivered["f1"].order = <<2, 0, 1>>
    /\ delivered["f1"].totals = {3}
    /\ call[1].resp.status = "complete"

(***************************************************************************)
(* Two uploads with different file_ids, one call at a time per upload,     *)
(* the calls of the two uploads interleaving.                              *)
(***************************************************************************)
\* The upload that the calls in slot c belong to.
FidOf(c) == IF c = 1 THEN "f1" ELSE "f2"

\* The bytes of the chunks of the two files differ.
PayloadOf(fid, idx, a) ==
    IF fid = "f1" THEN Payload(idx, a)
    ELSE [k \in DOMAIN Payload(idx, a) |-> Payload(idx, a)[k] + 100]

NextChunkIso ==
    \/ \E c \in Slots, idx \in 0..(MaxSlots - 1), fname \in FileNames :
          /\ c = 1 => fname = "a.csv"
          /\ PutChunk(c, FidOf(c), idx, MaxSlots, fname,
                      PayloadOf(FidOf(c), idx, Attempts(FidOf(c), idx)))
    \/ \E c \in Slots : ChunkOpen(c)
    \/ \E c \in Slots : ChunkWrite(c)
    \/ \E c \in Slots : ChunkCheck(c)
    \/ \E c \in Slots : FinalOpen(c)
    \/ \E c \in Slots : AssembleChunk(c)
    \/ \E c \in Slots : ChunkCleanup(c)

SpecChunkIso == Init /\ [][NextChunkIso]_vars

RECURSIVE OriginalFileOf(_, _)
OriginalFileOf(fid, N) ==
    IF N = 0 THEN <<>> ELSE OriginalFileOf(fid, N - 1) \o PayloadOf(fid, N - 1, 0)

\* C17: a call of a clean upload that has answered found as many chunk files
\* as its own upload has delivered distinct indices, and when it answered
\* complete the artifact it names holds the chunks of its own upload in index
\* order, whatever the calls of the other upload did meanwhile.
C17_UploadsIsolated ==
    \A c \in Slots :
        (/\ call[c].pc = "done"
         /\ CleanUpload(call[c].file_id)
         /\ call[c].resp.status \in {"chunk_received", "complete"})
            => /\ call[c].resp.uploaded_chunks =
                     Cardinality(DeliveredIndices(call[c].file_id))
               /\ call[c].resp.status = "complete"
                     => artifacts[call[c].filename].data =
                           OriginalFileOf(call[c].file_id, call[c].total_chunks)

(***************************************************************************)
(* Notification hub: the websocket endpoint and ConnectionManager.         *)
(***************************************************************************)
Range(seq) == {seq[k] : k \in 1..Len(seq)}

\* list.remove(x) after the test "x in list": the first occurrence goes.
RECURSIVE Remove(_, _)
Remove(seq, x) ==
    IF seq = <<>> THEN <<>>
    ELSE IF Head(seq) = x THEN Tail(seq)
    ELSE <<Head(seq)>> \o Remove(Tail(seq), x)

\* ConnectionManager.disconnect for each of the sockets in dead, in order.
RECURSIVE DisconnectAll(_, _)
DisconnectAll(seq, dead) ==
    IF dead = <<>> THEN seq ELSE DisconnectAll(Remove(seq, Head(dead)), Tail(dead))

\* The broadcast frames after somebody other than frame b changed the list,
\* removing the sockets in gone: frames in the middle of their iteration note
\* it.
Noted(frames, b, gone) ==
    [d \in Broadcasts |->
        IF d # b /\ frames[d].pc = "send"
        THEN [frames[d] EXCEPT !.mutated = TRUE, !.unsub = @ \cup gone]
        ELSE frames[d]]

\* A client opens /ws/realtime: manager.connect suspends in websocket.accept().
WsConnect(s) ==
    /\ LoopFree
    /\ socket[s].pc = "none"
    /\ socket' = [socket EXCEPT ![s].pc = "accepting"]
    /\ UNCHANGED <<active_connections, bcast>>
    /\ UNCHANGED notHubVars

\* accept() returns: self.active_connections.append(websocket), and the
\* endpoint enters its loop (await asyncio.sleep(2)).
WsAccepted(s) ==
    /\ LoopFree
    /\ socket[s].pc = "accepting"
    /\ socket' = [socket EXCEPT ![s].pc = "open"]
    /\ active_connections' = Append(active_connections, s)
    /\ bcast' = Noted(bcast, "none", {})
    /\ UNCHANGED notHubVars

\* The peer of an open websocket goes away: from now on sends to it raise.
PeerClose(s) ==
    /\ LoopFree
    /\ socket[s].pc = "open"
    /\ ~socket[s].broken
    /\ socket' = [socket EXCEPT ![s].broken = TRUE]
    /\ UNCHANGED <<active_connections, bcast>>
    /\ UNCHANGED notHubVars

\* The endpoint's own send raises WebSocketDisconnect: manager.disconnect.
WsDisconnect(s) ==
    /\ LoopFree
    /\ socket[s].pc = "open"
    /\ socket[s].broken
    /\ socket' = [socket EXCEPT ![s].pc = "closed"]
    /\ IF s \in Range(active_connections)
       THEN /\ active_connections' = Remove(active_connections, s)
            /\ bcast' = Noted(bcast, "none", {s})
       ELSE UNCHANGED <<active_connections, bcast>>
    /\ UNCHANGED notHubVars

\* A broadcast starts: dead_connections = [], and the for loop takes the first
\* connection of the list and suspends in its send_json; with an empty list
\* the pass is over at once.
BroadcastStart(b) ==
    /\ LoopFree
    /\ bcast[b].pc = "idle"
    /\ bcast' = [bcast EXCEPT ![b] =
                   IF active_connections = <<>>
                   THEN [IdleBroadcast EXCEPT !.pc = "done"]
                   ELSE [IdleBroadcast EXCEPT !.pc = "send", !.i = 1,
                                              !.connection = active_connections[1],
                                              !.start = Range(active_connections)]]
    /\ UNCHANGED <<active_connections, socket>>
    /\ UNCHANGED notHubVars

DeadNeverRecorded(dead, connection, ok) == dead

\* try: await connection.send_json(message); except: dead_connections.append
DeadAfterSend(dead, connection, ok) == IF ok THEN dead ELSE Append(dead, connection)

\* The send_json that a broadcast awaits ends, by returning or by raising (the
\* peer has gone); the for loop then takes the next item of the list as it is
\* now, by the iterator's index, and suspends in its send; when the index has
\* reached the end of the list, the dead connections are disconnected and the
\* pass is over.
BroadcastSend(b) ==
    LET f == bcast[b]
        ok == ~socket[f.connection].broken
        dead == DeadAfterSend(f.dead_connections, f.connection, ok)
        sent == [f EXCEPT !.dead_connections = dead, !.tried = Append(@, <<f.connection, ok>>)]
        after == DisconnectAll(active_connections, dead)
        gone == Range(active_connections) \ Range(after)
    IN
    /\ LoopFree
    /\ f.pc = "send"
    /\ IF f.i < Len(active_connections)
       THEN /\ bcast' = [bcast EXCEPT ![b] =
                           [sent EXCEPT !.i = @ + 1,
                                        !.connection = active_connections[f.i + 1]]]
            /\ UNCHANGED active_connections
       ELSE /\ active_connections' = after
            /\ bcast' = IF gone = {}
                        THEN [bcast EXCEPT ![b] = [sent EXCEPT !.pc = "done"]]
                        ELSE Noted([bcast EXCEPT ![b] = [sent EXCEPT !.pc = "done"]], b, gone)
    /\ UNCHANGED socket
    /\ UNCHANGED notHubVars

\* Clients that connect and go away, and broadcasts.
NextHub ==
    \/ \E s \in Sockets : WsConnect(s)
    \/ \E s \in Sockets : WsAccepted(s)
    \/ \E s \in Sockets : PeerClose(s)
    \/ \E s \in Sockets : WsDisconnect(s)
    \/ \E b \in Broadcasts : BroadcastStart(b)
    \/ \E b \in Broadcasts : BroadcastSend(b)

SpecHub == Init /\ [][NextHub]_vars

\* The sockets a pass tried to send to, those whose send raised, and those
\* whose send returned.
TriedIn(f) == {f.tried[k][1] : k \in 1..Len(f.tried)}
FailedIn(f) == {f.tried[k][1] : k \in {j \in 1..Len(f.tried) : ~f.tried[j][2]}}
Tried(b) == TriedIn(bcast[b])
DeliveryAttempts(b, s) ==
    Cardinality({k \in 1..Len(bcast[b].tried) : bcast[b].tried[k][1] = s})
Failed(b) == FailedIn(bcast[b])
Succeeded(b) == Tried(b) \ Failed(b)

\* C18: when a broadcast pass is over, every socket that was in the list when
\* the pass started, and that nobody else removed meanwhile, was tried exactly
\* once; and the list did not change while the pass iterated over it.
C18_OneAttemptEach ==
    \A b \in Broadcasts :
        bcast[b].pc = "done"
            => /\ \A s \in bcast[b].start \ bcast[b].unsub : DeliveryAttempts(b, s) = 1
               /\ ~bcast[b].mutated

\* C19 as stated: at the step that ends a broadcast pass, every socket whose
\* send raised during the pass is out of the list, every socket whose send
\* returned is in the list, and, when the list did not change during the
\* pass, every socket of the list was tried, whichever sends raised.
C19_AsStated ==
    [][\A b \in Broadcasts :
         (bcast[b].pc = "send" /\ bcast'[b].pc = "done")
            => LET f == bcast'[b]
                   failed == FailedIn(f)
                   succeeded == TriedIn(f) \ failed
               IN /\ \A s \in failed : s \notin Range(active_connections')
                  /\ \A s \in succeeded : s \in Range(active_connections')
                  /\ ~f.mutated => TriedIn(f) = f.start]_vars

\* C19, amended: at the step that ends a broadcast pass, every socket whose
\* send raised during the pass is out of the list, every socket whose send
\* returned and that nobody else removed meanwhile is in the list, and, when
\* the list did not change during the pass, every socket of the list was
\* tried, whichever sends raised.
C19_DeadRemovedLiveKept ==
    [][\A b \in Broadcasts :
         (bcast[b].pc = "send" /\ bcast'[b].pc = "done")
            => LET f == bcast'[b]
                   failed == FailedIn(f)
                   succeeded == TriedIn(f) \ failed
               IN /\ \A s \in failed : s \notin Range(active_connections')
                  /\ \A s \in succeeded \ f.unsub : s \in Range(active_connections')
                  /\ ~f.mutated => TriedIn(f) = f.start]_vars

\* C19 witness: a pass over the list <<1, 2>> is over; the send to socket 1
\* raised, the send to socket 2 came after it and returned; socket 1 is out
\* of the list and socket 2 is in it.
C19_Witness ==
    /\ bcast["data_update"].pc = "done"
    /\ bcast["data_update"].tried = <<<<1, FALSE>>, <<2, TRUE>>>>
    /\ bcast["data_update"].dead_connections = <<1>>
    /\ ~bcast["data_update"].mutated
    /\ active_connections = <<2>>

(***************************************************************************)
(* Result cache: AdvancedCache.get, set and _cleanup.  Each runs under the *)
(* cache's lock, so each is one step.                                      *)
(***************************************************************************)
\* The dict c without the keys in K.
Without(c, K) == [k \in DOMAIN c \ K |-> c[k]]

FreshForever(timestamp, t) == TRUE

\* time.time() - timestamp < self.ttl
Fresh(timestamp, t) == t - timestamp < CACHE_TTL

\* _cleanup: expired_keys, the keys with current_time - t > self.ttl
ExpiredKeys(c, t) == {k \in DOMAIN c : t - c[k][2] > CACHE_TTL}

OverLimitAtMaxSize(c) == Cardinality(DOMAIN c) > CacheMaxSize

\* len(self.cache) > self.max_size * 0.8
OverLimit(c) == 10 * Cardinality(DOMAIN c) > 8 * CacheMaxSize

\* _cleanup's while loop: while the cache is over the limit, the oldest item of
\* access_times is popped and its key deleted if present.  With the queue
\* empty and the cache over the limit the loop spins for ever.
RECURSIVE EvictLoop(_, _)
EvictLoop(c, q) ==
    IF ~OverLimit(c) THEN [cache |-> c, access_times |-> q, stuck |-> FALSE]
    ELSE IF q = <<>> THEN [cache |-> c, access_times |-> q, stuck |-> TRUE]
    ELSE EvictLoop(Without(c, {Head(q)[1]}), Tail(q))

\* _cleanup at time t
Cleanup(c, q, t) == EvictLoop(Without(c, ExpiredKeys(c, t)), q)

\* cache.get(key)
CacheGet(k) ==
    /\ ~ops.stuck
    /\ IF k \in DOMAIN cache /\ Fresh(cache[k][2], now)
       THEN /\ got' = [key |-> k, data |-> cache[k][1], turn |-> ~got.turn]
            /\ UNCHANGED cache
       ELSE /\ got' = [key |-> k, data |-> None, turn |-> ~got.turn]
            /\ cache' = Without(cache, {k})
    /\ UNCHANGED <<access_times, last_set, ops>>
    /\ UNCHANGED <<chunkVars, pipeVars, apiVars, hubVars, svcVars>>

\* self.cache[key] = (value, current_time)
Inserted(c, k, t) ==
    [j \in DOMAIN c \cup {k} |-> IF j = k THEN <<ResultAt(k, t), t>> ELSE c[j]]

SetResultUnqueued(c, q, k, t) ==
    LET c1 == Inserted(c, k, t)
    IN IF Cardinality(DOMAIN c1) > CacheMaxSize
       THEN Cleanup(c1, q, t)
       ELSE [cache |-> c1, access_times |-> q, stuck |-> FALSE]

\* The body of set at time t: the entry is stored, the access is queued, and
\* _cleanup runs if len(self.cache) > self.max_size.
SetResult(c, q, k, t) ==
    LET c1 == Inserted(c, k, t)
        q1 == Append(q, <<k, t>>)
    IN IF Cardinality(DOMAIN c1) > CacheMaxSize
       THEN Cleanup(c1, q1, t)
       ELSE [cache |-> c1, access_times |-> q1, stuck |-> FALSE]

\* cache.set(key, value), the value being the data computed now for key k;
\* _cleanup runs when the cache has grown over max_size.  At most limit sets
\* are made.
CacheSetWithin(k, limit) ==
    LET res == SetResult(cache, access_times, k, now)
    IN
    /\ ~ops.stuck
    /\ ops.sets < limit
    /\ cache' = res.cache
    /\ access_times' = res.access_times
    /\ last_set' = [j \in CacheKeys |->
                      IF j = k
                      THEN [data |-> ResultAt(k, now), time |-> now,
                            evicted |-> k \notin DOMAIN res.cache]
                      ELSE IF j \in DOMAIN cache /\ j \notin DOMAIN res.cache
                           THEN [last_set[j] EXCEPT !.evicted = TRUE]
                           ELSE last_set[j]]
    /\ ops' = [ops EXCEPT !.sets = @ + 1, !.stuck = res.stuck]
    /\ UNCHANGED got
    /\ UNCHANGED <<chunkVars, pipeVars, apiVars, hubVars, svcVars>>

CacheSet(k) == CacheSetWithin(k, MaxSets)

\* The clock advances by d seconds.
Tick(d) ==
    /\ d > 0
    /\ now + d <= MaxTime
    /\ now' = now + d
    /\ UNCHANGED <<cache, access_times, last_set, got, ops>>
    /\ UNCHANGED <<processing_status, tempfiles, run, events, cancels, reader>>
    /\ UNCHANGED <<chunkVars, apiVars, hubVars, svcVars>>

\* Gets and sets of the cache as time passes.
NextCache ==
    \/ \E k \in CacheKeys : CacheGet(k)
    \/ \E k \in CacheKeys : CacheSet(k)
    \/ \E d \in {CACHE_TTL - 1, CACHE_TTL, CACHE_TTL + 1} : Tick(d)

SpecCache == Init /\ [][NextCache]_vars

\* C20: a get of a key whose latest set, at time T, was not removed by a
\* cleanup returns the data of that set when it is made before T + ttl and
\* returns None when it is made after T + ttl; and data that a get returns was
\* set at most ttl before.
C20_TtlExpiry ==
    [][got'.turn # got.turn
          => LET w == last_set[got'.key]
             IN /\ (w # NoWrite /\ ~w.evicted)
                      => /\ now < w.time + CACHE_TTL => got'.data = w.data
                         /\ now > w.time + CACHE_TTL => got'.data = None
                /\ got'.data # None => now - got'.data[2] <= CACHE_TTL]_vars

\* C20 witness: more than ttl after the latest set of a key, which no cleanup
\* had removed, a get of the key has found the entry expired, has deleted it
\* and has returned None.
C20_Witness ==
    /\ got.key # 0
    /\ got.data = None
    /\ last_set[got.key] # NoWrite
    /\ ~last_set[got.key].evicted
    /\ now > last_set[got.key].time + CACHE_TTL
    /\ got.key \notin DOMAIN cache

\* C21: a set that makes the entry count exceed max_size returns with at
\* most 0.8 * max_size entries, and between operations the entry count never
\* exceeds max_size.
C21_CountBounded ==
    /\ [](~ops.stuck => Cardinality(DOMAIN cache) <= CacheMaxSize)
    /\ [][\A k \in CacheKeys :
            (/\ ops'.sets # ops.sets
             /\ Cardinality(DOMAIN cache \cup {k}) > CacheMaxSize
             /\ ~ops'.stuck
             /\ CacheSet(k))
               => 10 * Cardinality(DOMAIN cache') <= 8 * CacheMaxSize]_vars

\* C21 witness: max_size + 1 different keys have been set at time 0, so the
\* last of these sets made the count exceed max_size, ran the cleanup and
\* returned with at most 0.8 * max_size entries.
C21_Witness ==
    /\ now = 0
    /\ ops.sets = CacheMaxSize + 1
    /\ ~ops.stuck
    /\ \A k \in CacheKeys : last_set[k] # NoWrite
    /\ cache # NoEntries
    /\ 10 * Cardinality(DOMAIN cache) <= 8 * CacheMaxSize

\* Gets and sets of the cache with one more set, so that a key can be set
\* again before the cache grows over max_size.
NextCacheEvict ==
    \/ \E k \in CacheKeys : CacheGet(k)
    \/ \E k \in CacheKeys : CacheSetWithin(k, MaxSets + 1)
    \/ \E d \in {CACHE_TTL - 1, CACHE_TTL, CACHE_TTL + 1} : Tick(d)

SpecCacheEvict == Init /\ [][NextCacheEvict]_vars

\* Some turn of _cleanup's while loop, started with cache c and queue q,
\* deletes a key while a key with an older current insertion time is cached.
RECURSIVE EvictsBeforeOlder(_, _)
EvictsBeforeOlder(c, q) ==
    IF ~OverLimit(c) \/ q = <<>> THEN FALSE
    ELSE LET old_key == Head(q)[1]
         IN \/ /\ old_key \in DOMAIN c
               /\ \E j \in DOMAIN c : c[j][2] < c[old_key][2]
            \/ EvictsBeforeOlder(Without(c, {old_key}), Tail(q))

\* C22: a set that runs the cleanup returns with no expired entry in the
\* cache, has evicted no entry while an entry with an older current insertion
\* time was cached, and has evicted nothing more once the count was at or
\* below 0.8 * max_size.
C22_ExpiredThenOldestFirst ==
    [][\A k \in CacheKeys :
          (/\ ops'.sets # ops.sets
           /\ Cardinality(DOMAIN cache \cup {k}) > CacheMaxSize
           /\ ~ops'.stuck
           /\ CacheSetWithin(k, MaxSets + 1))
             => LET c1 == Inserted(cache, k, now)
                    kept == Without(c1, ExpiredKeys(c1, now))
                IN /\ ExpiredKeys(cache', now) = {}
                   /\ ~EvictsBeforeOlder(kept, Append(access_times, <<k, now>>))
                   /\ ~OverLimit(kept) => cache' = kept
                   /\ OverLimit(kept)
                         => 10 * (Cardinality(DOMAIN cache') + 1) > 8 * CacheMaxSize]_vars

(***************************************************************************)
(* Cache keys                                                              *)
(***************************************************************************)
\* The dicts with keys from K and values from V, in every insertion order.
DictsOver(K, V) ==
    UNION {{d \in [1..n -> K \X V] :
               \A i, j \in 1..n : d[i][1] = d[j][1] => i = j} :
           n \in 0..Cardinality(K)}

\* Python's == of two dicts: the same items, in whatever order.
DictEq(d, e) == {d[i] : i \in DOMAIN d} = {e[i] : i \in DOMAIN e}

\* request.data, a list of one row, and request.question
Rows == {<<d>> : d \in DictsOver({"a", "b"}, {"1", "2"})}
Questions == {"q1", "q2"}
\* keyword parameters of a call, in the order the call gives them
Kwargs == DictsOver({"x", "y"}, {"1"})

\* The order of the strings, as Python compares them.
StrRank(w) == CASE w = "x" -> 1 [] w = "y" -> 2

\* repr of the items of a dict or of a list of tuples: "k: v, k: v"
RECURSIVE ItemsRepr(_)
ItemsRepr(items) ==
    IF items = <<>> THEN <<>>
    ELSE <<Head(items)[1], ":", Head(items)[2]>>
             \o (IF Len(items) > 1 THEN <<",">> ELSE <<>>)
             \o ItemsRepr(Tail(items))

\* repr of a dict: its items in insertion order
DictRepr(d) == <<"{">> \o ItemsRepr(d) \o <<"}">>

\* str(args) for args = (data, question), data a list of one dict
ArgsStr(args) ==
    <<"(", "[">> \o DictRepr(args[1][1]) \o <<"]", ",", args[2], ")">>

\* sorted(kwargs.items()): the names are distinct, so the items are ordered
\* by name.
RECURSIVE Sorted(_)
Sorted(items) ==
    IF items = <<>> THEN <<>>
    ELSE LET i == CHOOSE i \in DOMAIN items :
                     \A j \in DOMAIN items : StrRank(items[i][1]) <= StrRank(items[j][1])
             rest == [j \in 1..(Len(items) - 1) |->
                         IF j < i THEN items[j] ELSE items[j + 1]]
         IN <<items[i]>> \o Sorted(rest)

\* hashlib.md5(...).hexdigest(): the digest stands for the string hashed,
\* different strings having different digests.
Md5(key_data) == <<"md5">> \o key_data

\* _generate_key(*args, **kwargs)
GenerateKey(args, kwargs) ==
    Md5(ArgsStr(args) \o <<"[">> \o ItemsRepr(Sorted(kwargs)) \o <<"]">>)

\* A call of _generate_key at call site c.
KeyCall(c, args, kwargs) ==
    /\ ~keyed[c].made
    /\ keyed' = [keyed EXCEPT ![c] = [made |-> TRUE, args |-> args, kwargs |-> kwargs,
                                      key |-> GenerateKey(args, kwargs)]]
    /\ UNCHANGED <<guardian, validated, lock, thread, analysed, hyper>>
    /\ UNCHANGED notSvcVars

NextKey ==
    \E c \in KeyCalls, data \in Rows, question \in Questions, kwargs \in Kwargs :
        KeyCall(c, <<data, question>>, kwargs)

SpecKey == Init /\ [][NextKey]_vars

\* Python's == of the positional arguments of two calls
ArgsEq(a, b) == DictEq(a[1][1], b[1][1]) /\ a[2] = b[2]

\* C23: two calls of _generate_key with equal positional arguments and equal
\* keyword parameters, the keyword parameters given in any order, return the
\* same key.
C23_KeyDeterministic ==
    \A c, d \in KeyCalls :
        (/\ keyed[c].made /\ keyed[d].made
         /\ ArgsEq(keyed[c].args, keyed[d].args)
         /\ DictEq(keyed[c].kwargs, keyed[d].kwargs))
            => keyed[c].key = keyed[d].key

(***************************************************************************)
(* Memory guardian: LargeFileProcessor._monitor_memory, a daemon thread.    *)
(***************************************************************************)
\* memory_percent = psutil.virtual_memory().percent / 100;
\* memory_percent > MEMORY_THRESHOLD
High(percent) == RatLt(Rat(MEMORY_THRESHOLD, 100), Rat(percent, 1000))

SleepAlwaysInterval(ok) == SAMPLE_INTERVAL

\* time.sleep(5) at the end of the try block, time.sleep(10) in the handler
SleepAfter(ok) == IF ok THEN SAMPLE_INTERVAL ELSE ERROR_BACKOFF

\* One pass of the loop up to its sleep: the sample is taken (ok) or raises;
\* a high sample logs a warning and calls gc.collect().
MonitorSample(ok, percent) ==
    /\ guardian.pc = "sample"
    /\ guardian' = [pc |-> "sleep", taken |-> TRUE, ok |-> ok,
                    percent |-> IF ok THEN percent ELSE 0,
                    collected |-> ok /\ High(percent),
                    remaining |-> SleepAfter(ok), slept |-> 0,
                    turn |-> ~guardian.turn]
    /\ UNCHANGED <<keyed, validated, lock, thread, analysed, hyper>>
    /\ UNCHANGED notSvcVars

\* A second of the sleep passes.
MonitorSleep ==
    /\ guardian.pc = "sleep"
    /\ guardian.remaining > 0
    /\ guardian' = [guardian EXCEPT !.remaining = @ - 1, !.slept = @ + 1]
    /\ UNCHANGED <<keyed, validated, lock, thread, analysed, hyper>>
    /\ UNCHANGED notSvcVars

\* The sleep returns and the loop goes round.
MonitorWake ==
    /\ guardian.pc = "sleep"
    /\ guardian.remaining = 0
    /\ guardian' = [guardian EXCEPT !.pc = "sample"]
    /\ UNCHANGED <<keyed, validated, lock, thread, analysed, hyper>>
    /\ UNCHANGED notSvcVars

NextGuardian ==
    \/ \E percent \in Percents : MonitorSample(TRUE, percent)
    \/ MonitorSample(FALSE, 0)
    \/ MonitorSleep
    \/ MonitorWake

\* The thread is scheduled again and again, and a sleep returns.
SpecGuardian == Init /\ [][NextGuardian]_vars /\ WF_vars(NextGuardian)

\* C24: after every sample the loop takes another sample; it has slept 5
\* seconds between a normal sample and the next one and 10 seconds between
\* a sampling error and the next one; and a sample requests a reclamation
\* pass exactly when its utilization is above 90%.
C24_GuardianNeverStops ==
    /\ []<>(guardian.turn) /\ []<>(~guardian.turn)
    /\ [][guardian'.turn # guardian.turn
            => /\ guardian.taken
                    => guardian.slept = (IF guardian.ok THEN 5 ELSE 10)
               /\ guardian'.collected
                    <=> (guardian'.ok /\ guardian'.percent > 900)]_vars

\* C24 witness: a sample raised, the thread has slept 10 seconds and is back
\* at the top of its loop, about to sample again.
C24_Witness ==
    /\ guardian.pc = "sample"
    /\ guardian.taken
    /\ ~guardian.ok
    /\ guardian.slept = 10

(***************************************************************************)
(* POST /api/upload/validate                                               *)
(***************************************************************************)
\* The files sent for validation: a stem with a suffix (or none), sizes in MB.
ValidatedNames ==
    {"data", "report"} \X {".csv", ".CSV", ".xlsx", ".XLSX", ".xls", ".Xls", ".json", ".Json",
                           ".tsv", ".TSV", ".txt", ".tXt", ".pdf", ".PDF", ".gz", ""}
ValidatedSizes == {0, 1, 50, 51, 100, 101, MAX_FILE_SIZE - 1, MAX_FILE_SIZE, MAX_FILE_SIZE + 1, 2 * MAX_FILE_SIZE}

\* _estimate_processing_time: estimated_seconds, at 10MB a second
EstimatedSeconds(size) == Max2(1, size \div 10)

\* _get_upload_recommendations, by the subject of each pair of sentences;
\* low_memory: the file is larger than 30% of the available memory.
Recommendations(size, extension, low_memory) ==
    (IF size > 100 THEN {"chunked_upload"} ELSE {})
        \cup (IF extension \in {".xlsx", ".xls"} THEN {"excel"} ELSE {})
        \cup (IF size > 50 THEN {"chunked_processing"} ELSE {})
        \cup (IF low_memory THEN {"memory"} ELSE {})

\* validate_file_upload: validate_file raises HTTP 413 or 400, which the
\* handler raises again; otherwise the answer is "valid" with the estimate
\* and the recommendations.
ValidateFileUpload(filename, size, low_memory) ==
    LET verdict == ValidateFile(filename, size)
    IN /\ validated' =
            [made |-> TRUE, filename |-> filename, size |-> size,
             code |-> CASE verdict = "too_large" -> 413
                        [] verdict = "unsupported" -> 400
                        [] OTHER -> 200,
             body |-> IF verdict = "ok"
                      THEN [status |-> "valid",
                            extension |-> FileExtension(filename),
                            estimated_seconds |-> EstimatedSeconds(size),
                            recommendations |->
                                Recommendations(size, FileExtension(filename), low_memory)]
                      ELSE [detail |-> verdict]]
       /\ UNCHANGED <<keyed, guardian, lock, thread, analysed, hyper>>
       /\ UNCHANGED notSvcVars

NextValidate ==
    \E filename \in ValidatedNames, size \in ValidatedSizes, low_memory \in BOOLEAN :
        ValidateFileUpload(filename, size, low_memory)

SpecValidate == Init /\ [][NextValidate]_vars

\* C25: validation accepts a file exactly when its size is at most 200MB and
\* its extension, whatever its case, is one of .csv, .xlsx, .xls, .json, .tsv,
\* .txt; a file over 200MB gets the size-limit error, whatever its extension,
\* and a file within the limit with another extension gets the
\* unsupported-type error.
C25_ValidationVerdict ==
    validated.made
        => LET supported == Lower(validated.filename[2])
                                \in {".csv", ".xlsx", ".xls", ".json", ".tsv", ".txt"}
           IN /\ validated.code = 200 <=> (validated.size <= 200 /\ supported)
              /\ validated.size > 200
                    => validated.code = 413 /\ validated.body.detail = "too_large"
              /\ (validated.size <= 200 /\ ~supported)
                    => validated.code = 400 /\ validated.body.detail = "unsupported"

\* C25 witness: a file over 200MB with an unsupported extension was rejected
\* with the size-limit error.
C25_Witness ==
    /\ validated.made
    /\ validated.size > 200
    /\ validated.filename[2] = ".PDF"
    /\ validated.code = 413

\* C26: a run that streamed a JSON-Lines file of L lines and yielded its
\* complete event reports total_lines = L and parsed_objects = the number of
\* well-formed lines, wherever the malformed lines are.
C26_JsonLinesCounts ==
    \A r \in RunIds :
        (\E i \in DOMAIN events[r] : events[r][i] = Event("complete", "json_stream"))
            => /\ run[r].line_count = JLLen(run[r].jl)
               /\ run[r].parsed_objects = OkUpTo(run[r].jl, Len(run[r].jl), JLLen(run[r].jl))

(***************************************************************************)
(* Two POST /api/upload/process requests, each naming its processing_id,   *)
(* and their background runs side by side; the files are small .csv files. *)
(***************************************************************************)
NextRuns ==
    \E r \in RunIds :
        \/ \E pid \in PIds : UploadAndProcess(r, pid, <<"data", ".csv">>, 40)
        \/ RunBegin(r)
        \/ \E ok \in BOOLEAN : OpenTemp(r, ok)
        \/ ReadChunk(r)
        \/ \E ok \in BOOLEAN : WriteChunk(r, ok)
        \/ SetProcessing(r)
        \/ Except(r)
        \/ Finally(r)
        \/ \E ok \in BOOLEAN : CsvProbe(r, ok, 10)
        \/ \E ok \in BOOLEAN : CsvFull(r, ok)
        \/ \E ok \in BOOLEAN : Df70(r, ok)
        \/ \E ok \in BOOLEAN : Df90(r, ok)
        \/ DfComplete(r)
        \/ \E ok \in BOOLEAN : ChunksOpen(r, ok)
        \/ \E ok \in BOOLEAN : ChunkNext(r, ok)

SpecRuns == Init /\ [][NextRuns]_vars

\* Run r has written the record of its processing_id.
HasWritten(r) == run[r].pc \notin {"idle", "rejected", "scheduled"}

\* C27: no two pipeline runs write the same record, and no two runs share a
\* staged temporary file.
C27_OneRunPerRecord ==
    \A r1, r2 \in RunIds :
        (r1 # r2 /\ HasWritten(r1) /\ HasWritten(r2))
            => Pid(r1) # Pid(r2) /\ Path(r1) # Path(r2)

\* C28: every record of the status store is whole: it has a status among
\* uploading, processing, complete, error and cancelled, a progress from 0 to
\* 100, a message and a start time.
C28_RecordsWhole ==
    \A p \in PIds :
        HasRecord(p)
            => /\ {"status", "progress", "message", "start_time"} \subseteq DOMAIN processing_status[p]
               /\ processing_status[p].status \in NonTerminal \cup Terminal
               /\ RatLeq(RatInt(0), processing_status[p].progress)
               /\ RatLeq(processing_status[p].progress, RatInt(100))

(***************************************************************************)
(* AdvancedCache.get and AdvancedCache.set called by threads: the          *)
(* statements of each body, between taking and releasing self.lock.        *)
(***************************************************************************)
LockNeverHeld(owner, t) == TRUE

\* with self.lock: an RLock is taken when it is free or held by the thread
\* itself.
LockFree(owner, t) == owner \in {0, t}

\* A thread calls cache.get(k) or cache.set(k, value).
ThreadCall(t, op, k) ==
    /\ thread[t].pc = "idle"
    /\ ~ops.stuck
    /\ op = "set" => ops.sets < MaxSets
    /\ ops' = IF op = "set" THEN [ops EXCEPT !.sets = @ + 1] ELSE ops
    /\ thread' = [thread EXCEPT ![t] = [IdleThread EXCEPT !.pc = "acquire", !.op = op,
                                                          !.key = k]]
    /\ UNCHANGED <<lock, keyed, guardian, validated, analysed, hyper>>
    /\ UNCHANGED <<cache, access_times, last_set, got>>
    /\ UNCHANGED <<chunkVars, pipeVars, apiVars, hubVars>>

\* with self.lock:
ThreadAcquire(t) ==
    /\ thread[t].pc = "acquire"
    /\ LockFree(lock, t)
    /\ lock' = t
    /\ thread' = [thread EXCEPT ![t].pc = IF thread[t].op = "get" THEN "get_in" ELSE "set_item"]
    /\ UNCHANGED <<keyed, guardian, validated, analysed, hyper>>
    /\ UNCHANGED cacheVars
    /\ UNCHANGED <<chunkVars, pipeVars, apiVars, hubVars>>

\* The call of thread t ends with ret, returned or raised; leaving the with
\* block releases the lock.
Returned(t, ret) == [thread EXCEPT ![t] = [IdleThread EXCEPT !.ret = ret]]

\* get: if key in self.cache; when it is not, return None
ThreadGetIn(t) ==
    /\ thread[t].pc = "get_in"
    /\ IF thread[t].key \in DOMAIN cache
       THEN /\ thread' = [thread EXCEPT ![t].pc = "get_item"]
            /\ UNCHANGED lock
       ELSE /\ thread' = Returned(t, None)
            /\ lock' = 0
    /\ UNCHANGED <<keyed, guardian, validated, analysed, hyper>>
    /\ UNCHANGED cacheVars
    /\ UNCHANGED <<chunkVars, pipeVars, apiVars, hubVars>>

\* get: data, timestamp = self.cache[key], which raises KeyError when the key
\* is gone; a fresh entry is returned, an expired one deleted.
ThreadGetItem(t) ==
    LET k == thread[t].key
    IN /\ thread[t].pc = "get_item"
       /\ IF k \notin DOMAIN cache
          THEN /\ thread' = Returned(t, <<"KeyError">>)
               /\ UNCHANGED cache
          ELSE IF Fresh(cache[k][2], now)
          THEN /\ thread' = Returned(t, cache[k][1])
               /\ UNCHANGED cache
          ELSE /\ thread' = Returned(t, None)
               /\ cache' = Without(cache, {k})
       /\ lock' = 0
       /\ UNCHANGED <<keyed, guardian, validated, analysed, hyper>>
       /\ UNCHANGED <<access_times, last_set, got, ops>>
       /\ UNCHANGED <<chunkVars, pipeVars, apiVars, hubVars>>

\* set: current_time = time.time(); self.cache[key] = (value, current_time)
ThreadSetItem(t) ==
    /\ thread[t].pc = "set_item"
    /\ cache' = Inserted(cache, thread[t].key, now)
    /\ thread' = [thread EXCEPT ![t].pc = "set_append", ![t].current_time = now]
    /\ UNCHANGED <<lock, keyed, guardian, validated, analysed, hyper>>
    /\ UNCHANGED <<access_times, last_set, got, ops>>
    /\ UNCHANGED <<chunkVars, pipeVars, apiVars, hubVars>>

\* set: self.access_times.append((key, current_time))
ThreadSetAppend(t) ==
    /\ thread[t].pc = "set_append"
    /\ access_times' = Append(access_times, <<thread[t].key, thread[t].current_time>>)
    /\ thread' = [thread EXCEPT ![t].pc = "set_check"]
    /\ UNCHANGED <<lock, keyed, guardian, validated, analysed, hyper>>
    /\ UNCHANGED <<cache, last_set, got, ops>>
    /\ UNCHANGED <<chunkVars, pipeVars, apiVars, hubVars>>

\* set: if len(self.cache) > self.max_size: self._cleanup(); then set returns.
ThreadSetCheck(t) ==
    LET k == thread[t].key
        res == IF Cardinality(DOMAIN cache) > CacheMaxSize
               THEN Cleanup(cache, access_times, now)
               ELSE [cache |-> cache, access_times |-> access_times, stuck |-> FALSE]
    IN /\ thread[t].pc = "set_check"
       /\ cache' = res.cache
       /\ access_times' = res.access_times
       /\ ops' = [ops EXCEPT !.stuck = res.stuck]
       /\ last_set' = [last_set EXCEPT ![k] =
                          [data |-> ResultAt(k, thread[t].current_time),
                           time |-> thread[t].current_time,
                           evicted |-> k \notin DOMAIN res.cache]]
       /\ thread' = Returned(t, None)
       /\ lock' = 0
       /\ UNCHANGED <<keyed, guardian, validated, analysed, hyper>>
       /\ UNCHANGED got
       /\ UNCHANGED <<chunkVars, pipeVars, apiVars, hubVars>>

\* The two stores and their actors: a thread that reads the cache, always
\* the key of cache.get("hyperlocal_data"), and a thread that writes it; the
\* run of an empty .csv file, cancel requests and status requests for its
\* processing id.
NextShared ==
    \/ ThreadCall(1, "get", 1)
    \/ \E k \in CacheKeys : ThreadCall(2, "set", k)
    \/ \E t \in Threads : ThreadAcquire(t)
    \/ ThreadGetIn(1)
    \/ ThreadGetItem(1)
    \/ ThreadSetItem(2)
    \/ ThreadSetAppend(2)
    \/ ThreadSetCheck(2)
    \/ UploadAndProcess(1, "p1", <<"data", ".csv">>, 0)
    \/ RunBegin(1)
    \/ OpenTemp(1, TRUE)
    \/ ReadChunk(1)
    \/ SetProcessing(1)
    \/ CsvProbe(1, FALSE, 10)
    \/ ChunksOpen(1, FALSE)
    \/ Finally(1)
    \/ CancelProcessing("p1")
    \/ GetStatus("p1")

SpecShared == Init /\ [][NextShared]_vars

\* The pcs of a thread inside a with self.lock block.
InLock == {"get_in", "get_item", "set_item", "set_append", "set_check"}

\* C29: the bodies of the cache's get and set exclude each other, and a get
\* returns None or the data of the latest completed set of its key; a status
\* request answers not found or the record as the latest completed write left
\* it; and the update of a run is applied to the record of the store as it
\* is then, also after a cancel request has replaced the record.
C29_StoresSerialized ==
    /\ [](Cardinality({t \in Threads : thread[t].pc \in InLock}) <= 1)
    /\ [][\A t \in Threads :
            (thread[t].op = "get" /\ thread[t].pc \in InLock /\ thread'[t].pc = "idle")
                => thread'[t].ret \in {None, last_set[thread[t].key].data}]_vars
    /\ [][answer'["status"] # answer["status"]
            => answer'["status"] \in {NotFound("p1"), Ok("p1", processing_status["p1"])}]_vars
    /\ [][(run[1].pc = "uploaded" /\ run'[1].pc # "uploaded")
            => /\ processing_status'["p1"].status = "processing"
               /\ \A f \in DOMAIN processing_status["p1"] \ {"status", "progress", "message"} :
                     /\ f \in DOMAIN processing_status'["p1"]
                     /\ processing_status'["p1"][f] = processing_status["p1"][f]]_vars

\* C29 witness: the reading thread has got the data of a completed set while
\* the writing thread is inside another set, and a status request was
\* answered with the record that a cancel request and then the run's update
\* have written.
C29_Witness ==
    /\ thread[1].ret # None
    /\ thread[2].pc = "set_append"
    /\ lock = 2
    /\ cancels > 0
    /\ answer["status"].code = 200
    /\ answer["status"].body.status = "processing"
    /\ "start_time" \notin DOMAIN answer["status"].body

\* C30: once a run has ended with a complete event, the result cache holds
\* an entry (the run's final result).
C30_ResultCached ==
    \A r \in RunIds :
        (run[r].pc = "done" /\ HasEvent(r, "complete")) => cache # NoEntries

\* C31: in the delimited-text family a failure of the partitioned reader, at
\* any point (also while it computes its counts or its sample), is followed by
\* the row-chunked strategy and declares no error itself: no error event
\* comes from the partitioned reader.
C31_FallbackBeforeError ==
    \A r \in RunIds :
        \A i \in DOMAIN events[r] :
            events[r][i].type = "error" => events[r][i].source # "dask"

\* The progress events _stream_large_json has yielded in run r so far.
JsonProgressEvents(r) ==
    Cardinality({i \in DOMAIN events[r] : events[r][i] = Event("progress", "json_stream")})

\* C32: while streaming a JSON-Lines file a progress event is emitted at every
\* multiple of 10,000 lines read, whatever the line at that position is: when
\* the scan is past line m, floor(m / 10000) progress events were emitted.
C32_ProgressEveryTenThousand ==
    \A r \in RunIds :
        run[r].jl # <<>>
            => JsonProgressEvents(r) = run[r].line_num \div JSON_PROGRESS_EVERY

(***************************************************************************)
(* The streaming reader to its end: the passes after the first MaxPolls    *)
(* are each a whole timeout apart.  The event loop resumes a sleeper whose *)
(* time has come and gives it its pass of the loop, and synchronous code   *)
(* that holds the loop runs on to its next suspension point.               *)
(***************************************************************************)
NextStreamLive ==
    \/ \E sz \in {0, 40} : UploadAndProcess(1, "p1", <<"data", ".csv">>, sz)
    \/ RunBegin(1)
    \/ \E ok \in BOOLEAN : OpenTemp(1, ok)
    \/ ReadChunk(1)
    \/ \E ok \in BOOLEAN : WriteChunk(1, ok)
    \/ SetProcessing(1)
    \/ Except(1)
    \/ Finally(1)
    \/ \E ok \in BOOLEAN : CsvProbe(1, ok, 10)
    \/ \E ok \in BOOLEAN : CsvFull(1, ok)
    \/ \E ok \in BOOLEAN : Df70(1, ok)
    \/ \E ok \in BOOLEAN : Df90(1, ok)
    \/ DfComplete(1)
    \/ \E ok \in BOOLEAN : ChunksOpen(1, ok)
    \/ \E ok \in BOOLEAN : ChunkNext(1, ok)
    \/ CancelProcessing("p1")
    \/ StreamRequest("p1")
    \/ Poll
    \/ Sleep(POLL_INTERVAL)
    \/ Slept(STREAM_TIMEOUT)

SpecStreamLive ==
    /\ Init
    /\ [][NextStreamLive]_vars
    /\ WF_vars(Poll)
    /\ WF_vars(Sleep(POLL_INTERVAL) \/ Slept(STREAM_TIMEOUT))
    /\ WF_vars(~LoopFree /\ NextStreamLive)

\* The records a pass of the loop has just emitted.
JustEmitted == SubSeq(reader'.emitted, Len(reader.emitted) + 1, Len(reader'.emitted))

\* C33: a pass of the reader's loop emits the record only when its progress
\* differs from the progress of the record emitted before (the first pass
\* always emits it); a pass made more than 600 s after the reader started ends
\* the reader, with a timeout event unless the record made it stop; and every
\* reader that has started comes to its end.
C33_EmitsOnChangeAndTerminates ==
    /\ [][reader'.polls # reader.polls =>
            LET prev == reader.emitted
                rec == processing_status[reader.processing_id]
                emits == JustEmitted # <<>> /\ JustEmitted[1] # TimeoutEvent
            IN /\ emits => /\ JustEmitted[1] = rec
                           /\ prev # <<>> =>
                                ~RatEq(prev[Len(prev)].progress, rec.progress)
               /\ prev = <<>> => emits
               /\ now - reader'.start_time > STREAM_TIMEOUT =>
                    /\ reader'.pc = "done"
                    /\ rec.status \notin ReaderStopsAt =>
                         JustEmitted[Len(JustEmitted)] = TimeoutEvent]_vars
    /\ (reader.pc \in {"start", "sleep", "woken"}) ~> (reader.pc = "done")

\* A reader that met no status it stops at has ended by its timeout, having
\* emitted the record once and the timeout event after it.
C33_Witness ==
    /\ reader.pc = "done"
    /\ reader.status.status = "cancelled"
    /\ now - reader.start_time > STREAM_TIMEOUT
    /\ Len(reader.emitted) = 2
    /\ reader.emitted[2] = TimeoutEvent

(***************************************************************************)
(* The shared analysis routine, _analyze_columns and _generate_insights.   *)
(* A frame is its row count and, per column, the number of null cells of   *)
(* the column.                                                             *)
(***************************************************************************)
MaxCols == 2
FrameRows == {0, 1, 10}
Frames ==
    UNION {[rows : {n}, nulls : UNION {[1..c -> 0..n] : c \in 1..MaxCols}] : n \in FrameRows}

RECURSIVE SumSeq(_)
SumSeq(q) == IF q = <<>> THEN 0 ELSE Head(q) + SumSeq(Tail(q))

\* numpy's division of an integer by the integer 0 gives nan (0/0) and raises
\* nothing.
NaN == <<"nan">>

\* _analyze_columns: null_count and null_percentage of each column.
AnalyzeColumns(df) ==
    [c \in DOMAIN df.nulls |->
        [null_count |-> df.nulls[c],
         null_percentage |-> IF df.rows = 0 THEN NaN ELSE Rat(df.nulls[c] * 100, df.rows)]]

SeverityAtTenPercent(null_cells, total_cells) ==
    IF 10 * null_cells >= total_cells THEN "warning" ELSE "info"

\* "warning" if null_cells / total_cells > 0.1 else "info"
Severity(null_cells, total_cells) ==
    IF 10 * null_cells > total_cells THEN "warning" ELSE "info"

\* _generate_insights, its data-quality insight: the message names the null
\* cells and their percentage of all cells.
GenerateInsights(df) ==
    LET total_cells == df.rows * Len(df.nulls)
        null_cells == SumSeq(df.nulls)
    IN IF null_cells > 0
       THEN << [type |-> "data_quality",
                severity |-> Severity(null_cells, total_cells),
                null_cells |-> null_cells,
                percent |-> Rat(null_cells * 100, total_cells)] >>
       ELSE <<>>

\* The routine is applied to a frame.
Analyze(df) ==
    /\ analysed' = [made |-> TRUE, df |-> df, column_info |-> AnalyzeColumns(df),
                    insights |-> GenerateInsights(df)]
    /\ UNCHANGED <<keyed, guardian, validated, lock, thread, hyper>>
    /\ UNCHANGED notSvcVars

NextAnalyze == \E df \in Frames : Analyze(df)

SpecAnalyze == Init /\ [][NextAnalyze]_vars

\* C34: the data-quality insight is present exactly when the frame has a null
\* cell; its severity is warning when the null cells are more than 10% of all
\* cells and info otherwise; every column's null_percentage is its null count
\* divided by the row count, times 100; a 10-row, 2-column frame with one
\* column all null reports 50% null cells and null_percentage 100 and 0.
C34_DataQualityInsight ==
    analysed.made =>
        LET df == analysed.df
            cells == df.rows * Len(df.nulls)
            nulls == SumSeq(df.nulls)
            found == {i \in DOMAIN analysed.insights :
                         analysed.insights[i].type = "data_quality"}
        IN /\ found # {} <=> (\E c \in DOMAIN df.nulls : df.nulls[c] > 0)
           /\ \A i \in found :
                 /\ RatLt(Rat(10, 100), Rat(nulls, cells))
                        <=> analysed.insights[i].severity = "warning"
                 /\ ~RatLt(Rat(10, 100), Rat(nulls, cells))
                        <=> analysed.insights[i].severity = "info"
           /\ df.rows > 0 =>
                 \A c \in DOMAIN df.nulls :
                     RatEq(analysed.column_info[c].null_percentage,
                           Rat(df.nulls[c] * 100, df.rows))
           /\ (df.rows = 10 /\ df.nulls = <<10, 0>>) =>
                 /\ \E i \in found : RatEq(analysed.insights[i].percent, RatInt(50))
                 /\ RatEq(analysed.column_info[1].null_percentage, RatInt(100))
                 /\ RatEq(analysed.column_info[2].null_percentage, RatInt(0))

\* The frame of 10 rows and 2 columns, one of them all null, was analysed:
\* there is a data-quality insight, of severity warning.
C34_Witness ==
    /\ analysed.made
    /\ analysed.df = [rows |-> 10, nulls |-> <<10, 0>>]
    /\ Len(analysed.insights) = 1
    /\ analysed.insights[1].severity = "warning"

(***************************************************************************)
(* The hyperlocal dataset: get_hyperlocal_data_internal answers from the   *)
(* shared cache (key "hyperlocal_data", here key 1) or computes the        *)
(* dataset from the file, which load_hyperlocal_data keeps in _cache.      *)
(***************************************************************************)
HYPERLOCAL_FILE_TTL == 30
HyperlocalKey == 1

\* load_hyperlocal_data: is the file's content taken from _cache?
FileCached(h, t) == h.loaded /\ t - h.loaded_at < HYPERLOCAL_FILE_TTL

\* get_hyperlocal_data_internal, up to the broadcast of a computed dataset
\* (no websocket is connected): cache.get, and on a miss load_hyperlocal_data
\* (ok: the file exists and parses), the dataset computed now, cache.set.
HyperlocalRequest(ok) ==
    LET k == HyperlocalKey
        hit == k \in DOMAIN cache /\ Fresh(cache[k][2], now)
        res == SetResult(Without(cache, {k}), access_times, k, now)
        read == ~FileCached(hyper, now) /\ ok
    IN
    /\ ~ops.stuck
    /\ IF hit
       THEN /\ got' = [key |-> k, data |-> cache[k][1], turn |-> ~got.turn]
            /\ hyper' = [loaded |-> hyper.loaded, loaded_at |-> hyper.loaded_at,
                         made |-> TRUE, data |-> cache[k][1], at |-> now,
                         cached |-> TRUE]
            /\ UNCHANGED <<cache, access_times, last_set, ops>>
       ELSE /\ got' = [key |-> k, data |-> None, turn |-> ~got.turn]
            /\ cache' = res.cache
            /\ access_times' = res.access_times
            /\ last_set' = [j \in CacheKeys |->
                              IF j = k
                              THEN [data |-> ResultAt(k, now), time |-> now,
                                    evicted |-> k \notin DOMAIN res.cache]
                              ELSE IF j \in DOMAIN cache /\ j \notin DOMAIN res.cache
                                   THEN [last_set[j] EXCEPT !.evicted = TRUE]
                                   ELSE last_set[j]]
            /\ ops' = [ops EXCEPT !.sets = @ + 1, !.stuck = res.stuck]
            /\ hyper' = [loaded |-> hyper.loaded \/ read,
                         loaded_at |-> IF read THEN now ELSE hyper.loaded_at,
                         made |-> TRUE, data |-> ResultAt(k, now), at |-> now,
                         cached |-> FALSE]
    /\ UNCHANGED <<keyed, guardian, validated, lock, thread, analysed>>
    /\ UNCHANGED <<chunkVars, pipeVars, apiVars, hubVars>>

\* save_hyperlocal_data: _cache and _cache_timeout drop the file's entry.
SaveHyperlocal ==
    /\ hyper.loaded
    /\ hyper' = [hyper EXCEPT !.loaded = FALSE, !.loaded_at = 0]
    /\ UNCHANGED <<keyed, guardian, validated, lock, thread, analysed>>
    /\ UNCHANGED notSvcVars

NextHyper ==
    \/ \E ok \in BOOLEAN : HyperlocalRequest(ok)
    \/ SaveHyperlocal
    \/ \E d \in {HYPERLOCAL_FILE_TTL + 1, CACHE_TTL} : Tick(d)

SpecHyper == Init /\ [][NextHyper]_vars

\* C35: a request for the hyperlocal dataset is never answered with a value
\* that was computed more than 30 s before the request.
C35_HyperlocalThirtySeconds ==
    hyper.made => hyper.at - hyper.data[2] <= HYPERLOCAL_FILE_TTL

\* Sets (a key may be set again before the cache overflows), gets, and time
\* passing by more than the time-to-live, so that entries expire.
NextCacheQueue ==
    \/ \E k \in CacheKeys : CacheGet(k)
    \/ \E k \in CacheKeys : CacheSetWithin(k, MaxSets + 1)
    \/ Tick(CACHE_TTL + 1)

SpecCacheQueue == Init /\ [][NextCacheQueue]_vars

\* The keys that have an item in the queue q.
Queued(q) == {q[i][1] : i \in DOMAIN q}

\* C36: the cleanup loop always terminates: whatever sets, gets and cleanups
\* were made, every key in the cache has an item in the access_times queue, so
\* the queue is not empty while the cache is over 0.8 * max_size, and no set
\* is stuck in its cleanup.
C36_CleanupTerminates ==
    /\ DOMAIN cache \subseteq Queued(access_times)
    /\ OverLimit(cache) => access_times # <<>>
    /\ ~ops.stuck

\* A key was set twice, then the cache overflowed, and the cleanup popped the
\* stale queue item of that key and ended there: the key's later item is
\* still queued, the key is gone, and a get had removed nothing before.
C36_Witness ==
    /\ ops.sets = MaxSets + 1
    /\ ~ops.stuck
    /\ \E k \in CacheKeys :
          /\ k \notin DOMAIN cache
          /\ k \in Queued(access_times)
          /\ last_set[k].evicted
    /\ Cardinality(DOMAIN cache) < CacheMaxSize
    /\ Len(access_times) >= CacheMaxSize

\* C37: a streaming reader that has stopped because the record it read had a
\* status it stops at has emitted that record last: the client of the stream
\* is told that processing completed or failed.
C37_TerminalStatusEmitted ==
    (reader.pc = "done" /\ HasRecord(reader.processing_id)
        /\ reader.status.status \in ReaderStopsAt)
        => /\ reader.emitted # <<>>
           /\ reader.emitted[Len(reader.emitted)] = reader.status

RespondedOnReturn(r) == run[r].pc \notin {"idle", "rejected"}

\* Has the response of POST /api/upload/process, with the processing_id, been
\* written to the connection of run r's request?  The handler adds the
\* background task and returns; the response object writes the response and
\* then, with no suspension in between, awaits the background task, whose
\* first stretch creates the record.  A run at "scheduled" has returned from
\* the handler and its response is not yet written.
Responded(r) == run[r].pc \notin {"idle", "rejected", "scheduled"}

NextChunkAgain ==
    \E c \in Slots :
        \/ \E idx \in 0..(MaxChunks - 1), total \in 1..MaxChunks :
              PutChunkSeq(c, "f1", idx, total, "a.csv", Payload(idx, Attempts("f1", idx)))
        \/ ChunkOpen(c)
        \/ ChunkWrite(c)
        \/ ChunkCheck(c)
        \/ FinalOpen(c)
        \/ AssembleChunk(c)
        \/ ChunkCleanup(c)

SpecChunkAgain == Init /\ [][NextChunkAgain]_vars

\* The calls that have assembled fid's artifact and removed its staging
\* directory.
Assemblers(fid) == {c \in Slots : call[c].file_id = fid /\ call[c].removed}

\* C39: a file_id is assembled at most once: after a call has assembled the
\* upload and removed its staging directory, a chunk delivered again for the
\* file_id causes no second assembly, and once that call has answered no
\* staging directory of the file_id exists.
C39_AssembledAtMostOnce ==
    \A f \in FileIds :
        /\ Cardinality(Assemblers(f)) <= 1
        /\ (Assemblers(f) # {} /\ NoCallInFlight) => ~staging[f].exists

====
